---- MODULE Spec2Model ----
(***************************************************************************)
(* State-machine model of the LanceDB MCP server's table-lifecycle layer:  *)
(* the process-wide connection and table cache, the verify/create retry    *)
(* protocol, and the public operations built on them, running against a    *)
(* storage engine modelled by its table set.                               *)
(*                                                                         *)
(* A table name is a sequence of one-character strings.                    *)
(***************************************************************************)
EXTENDS Integers, Sequences, FiniteSets, TLC

\* ------------------------------------------------------------------------
\* Characters and the Python string methods the code uses
\* ------------------------------------------------------------------------

LowerLetters ==
    <<"a", "b", "c", "d", "e", "f", "g", "h", "i", "j", "k", "l", "m",
      "n", "o", "p", "q", "r", "s", "t", "u", "v", "w", "x", "y", "z">>
UpperLetters ==
    <<"A", "B", "C", "D", "E", "F", "G", "H", "I", "J", "K", "L", "M",
      "N", "O", "P", "Q", "R", "S", "T", "U", "V", "W", "X", "Y", "Z">>
DigitChars == <<"0", "1", "2", "3", "4", "5", "6", "7", "8", "9">>

Range(s) == {s[i] : i \in DOMAIN s}

IsLowerCh(c) == c \in Range(LowerLetters)
IsUpperCh(c) == c \in Range(UpperLetters)
IsDigitCh(c) == c \in Range(DigitChars)
IsAlnumCh(c) == IsLowerCh(c) \/ IsUpperCh(c) \/ IsDigitCh(c)
IsSpaceCh(c) == c \in {" ", "\t", "\n"}

IndexIn(c, s) == CHOOSE i \in DOMAIN s : s[i] = c

UpperCh(c) == IF IsLowerCh(c) THEN UpperLetters[IndexIn(c, LowerLetters)] ELSE c
LowerCh(c) == IF IsUpperCh(c) THEN LowerLetters[IndexIn(c, UpperLetters)] ELSE c

\* str.upper(), str.lower(), str.capitalize()
StrUpper(s) == [i \in DOMAIN s |-> UpperCh(s[i])]
StrLower(s) == [i \in DOMAIN s |-> LowerCh(s[i])]
StrCapitalize(s) == [i \in DOMAIN s |-> IF i = 1 THEN UpperCh(s[i]) ELSE LowerCh(s[i])]

\* str.strip()
RECURSIVE LStrip(_)
LStrip(s) == IF s /= <<>> /\ IsSpaceCh(Head(s)) THEN LStrip(Tail(s)) ELSE s

RECURSIVE RStrip(_)
RStrip(s) ==
    IF s /= <<>> /\ IsSpaceCh(s[Len(s)]) THEN RStrip(SubSeq(s, 1, Len(s) - 1)) ELSE s

StrStrip(s) == RStrip(LStrip(s))

\* re.sub(r'[^a-zA-Z0-9]', ' ', s).split(): the maximal runs of letters and digits
RECURSIVE SplitWords(_, _, _)
SplitWords(s, cur, acc) ==
    IF s = <<>> THEN (IF cur = <<>> THEN acc ELSE Append(acc, cur))
    ELSE IF IsAlnumCh(Head(s)) THEN SplitWords(Tail(s), Append(cur, Head(s)), acc)
    ELSE SplitWords(Tail(s), <<>>, IF cur = <<>> THEN acc ELSE Append(acc, cur))

RECURSIVE JoinCapitalized(_)
JoinCapitalized(words) ==
    IF words = <<>> THEN <<>>
    ELSE StrCapitalize(Head(words)) \o JoinCapitalized(Tail(words))

\* str(n) for a natural number
RECURSIVE NatToStr(_)
NatToStr(n) ==
    IF n < 10 THEN <<DigitChars[n + 1]>>
    ELSE NatToStr(n \div 10) \o <<DigitChars[(n % 10) + 1]>>

\* re.match(r'^[A-Z][a-zA-Z0-9]*$', s)
IsCanonical(s) ==
    /\ s /= <<>>
    /\ IsUpperCh(s[1])
    /\ \A i \in DOMAIN s : IsAlnumCh(s[i])

DefaultTable == <<"D", "e", "f", "a", "u", "l", "t", "T", "a", "b", "l", "e">>
TablePrefix == <<"T", "a", "b", "l", "e">>
HashModulus == 10000

\* hash(original_name) % 10000: Python's string hash is fixed within one process
\* and differs between processes; seed stands for the process's hash seed.
StrHashMod(s, seed) == (seed + 31 * Len(s)) % HashModulus

\* The joined words are returned as they are, a leading digit included
SanitizeJoinedOnly(table_name, seed) ==
    LET original_name == StrStrip(table_name)
        joined == JoinCapitalized(SplitWords(original_name, <<>>, <<>>))
    IN  IF original_name = <<>> THEN DefaultTable
        ELSE IF IsCanonical(original_name) THEN original_name
        ELSE IF joined = <<>>
             THEN TablePrefix \o NatToStr(StrHashMod(original_name, seed))
        ELSE joined

\* sanitize_table_name, given the process's hash seed
SanitizeWithSeed(table_name, seed) ==
    LET original_name == StrStrip(table_name)
        words == SplitWords(original_name, <<>>, <<>>)
        joined == JoinCapitalized(words)
        camel_case == IF joined /= <<>> /\ ~IsUpperCh(joined[1])
                      THEN StrCapitalize(joined) ELSE joined
    IN  IF original_name = <<>> THEN DefaultTable
        ELSE IF IsCanonical(original_name) THEN original_name
        ELSE IF camel_case = <<>>
             THEN TablePrefix \o NatToStr(StrHashMod(original_name, seed))
        ELSE camel_case

\* ------------------------------------------------------------------------
\* The regular expressions of hybrid_search's filter rewriting
\* ------------------------------------------------------------------------

\* [<>=!] and [0-9.]
CompareChars == {"<", ">", "=", "!"}
NumberChars == Range(DigitChars) \cup {"."}
SpaceChars == {" ", "\t", "\n"}

\* The index after the longest run of characters of set S that starts at i
RECURSIVE SpanEnd(_, _, _)
SpanEnd(s, i, S) == IF i <= Len(s) /\ s[i] \in S THEN SpanEnd(s, i + 1, S) ELSE i

\* The (lower-case) word w stands at index i of s, in any case (re.IGNORECASE)
WordAt(s, i, w) ==
    /\ i >= 1 /\ i + Len(w) - 1 <= Len(s)
    /\ \A j \in 1..Len(w) : LowerCh(s[i + j - 1]) = w[j]

NoClause == [from |-> 0, to |-> 0, op |-> <<>>, num |-> <<>>]

\* A match of  kw\s*([<>=!]+)\s*([0-9.]+)  starting at index i
ClauseAt(s, i, kw) ==
    LET a == i + Len(kw)
        b == SpanEnd(s, a, SpaceChars)
        c == SpanEnd(s, b, CompareChars)
        d == SpanEnd(s, c, SpaceChars)
        e == SpanEnd(s, d, NumberChars)
    IN IF WordAt(s, i, kw) /\ c > b /\ e > d
       THEN [from |-> i, to |-> e - 1, op |-> SubSeq(s, b, c - 1),
             num |-> SubSeq(s, d, e - 1)]
       ELSE NoClause

\* re.search(pattern, s, re.IGNORECASE): the leftmost match
SearchClause(s, kw) ==
    LET starts == {i \in 1..Len(s) : ClauseAt(s, i, kw) /= NoClause}
    IN IF starts = {} THEN NoClause
       ELSE ClauseAt(s, CHOOSE i \in starts : \A j \in starts : i <= j, kw)

\* re.sub(pattern, '', s, flags=re.IGNORECASE): every match is cut out
RECURSIVE RemoveClauses(_, _)
RemoveClauses(s, kw) ==
    LET m == SearchClause(s, kw)
    IN IF m = NoClause THEN s
       ELSE SubSeq(s, 1, m.from - 1) \o RemoveClauses(SubSeq(s, m.to + 1, Len(s)), kw)

\* \s*w\s*$ matches from index i
ConnectiveToEnd(s, i, w) ==
    LET a == SpanEnd(s, i, SpaceChars)
    IN WordAt(s, a, w) /\ SpanEnd(s, a + Len(w), SpaceChars) = Len(s) + 1

\* re.sub(r'\s*w\s*$|^\s*w\s*', '', s, flags=re.IGNORECASE) for w = and, or:
\* the word at the very start and the word at the very end are cut out, with
\* the blanks around them, whatever follows or precedes them
StripConnective(s, w) ==
    LET a == SpanEnd(s, 1, SpaceChars)
        first == IF WordAt(s, a, w) THEN SpanEnd(s, a + Len(w), SpaceChars) ELSE 1
        tails == {i \in first..Len(s) : ConnectiveToEnd(s, i, w)}
        last == IF tails = {} THEN Len(s)
                ELSE (CHOOSE i \in tails : \A j \in tails : i <= j) - 1
    IN IF ConnectiveToEnd(s, 1, w) THEN <<>> ELSE SubSeq(s, first, last)

NoFloat == [m |-> -1, e |-> 0]

RECURSIVE DigitsValue(_, _)
DigitsValue(s, acc) ==
    IF s = <<>> THEN acc
    ELSE DigitsValue(Tail(s), IF Head(s) = "." THEN acc
                              ELSE 10 * acc + (IndexIn(Head(s), DigitChars) - 1))

\* float(text) for a text of digits and dots: the number m / 10^e, or a
\* ValueError (NoFloat) for a text with no digit or more than one dot
ParseFloat(text) ==
    LET dots == {i \in DOMAIN text : text[i] = "."}
    IN IF Cardinality(dots) > 1 \/ Cardinality(dots) = Len(text) THEN NoFloat
       ELSE [m |-> DigitsValue(text, 0),
             e |-> IF dots = {} THEN 0 ELSE Len(text) - (CHOOSE i \in dots : TRUE)]

\* ------------------------------------------------------------------------
\* Bounds and program constants
\* ------------------------------------------------------------------------

\* Operations one caller performs in a sequential run
MaxOps == 2
\* Engine calls that may fail in one run
MaxFaults == 1

\* max_retries defaults and the retry budgets passed at the call sites
VerifyRetriesDefault == 3
CreateRetriesDefault == 3
VerifyRetriesAfterCreate == 5
DeleteChecks == 3
\* model.ndims() of the configured embedding model, and another width
ModelDims == 384
OtherDims == 512
\* the process's hash seed
HashSeed == 0

\* No sanitization: the name is used as the caller gave it
keep_table_name(table_name) == table_name

sanitize_table_name(table_name) == SanitizeWithSeed(table_name, HashSeed)

\* Names callers pass: "ab", "AB", "a-b"
RawNames == {<<"a", "b">>, <<"A", "B">>, <<"a", "-", "b">>}
\* Names of the tables earlier runs of the program left in the engine
TableNames == {sanitize_table_name(n) : n \in RawNames}
AllNames == RawNames \cup TableNames
Callers == {1, 2}

\* rows: the rows of the table version the handle was opened on
NoHandle == [id |-> 0, w |-> 0, rows |-> 0]
\* rows: stored rows; torn: those whose vector is not the embedding of their document
NoTable == [id |-> 0, w |-> 0, rows |-> 0, torn |-> 0]

\* The values an entry of docs can be: None, a string, a number
NoneDoc == [t |-> "none", s |-> <<>>, n |-> 0]
StrDoc(s) == [t |-> "str", s |-> s, n |-> 0]
IntDoc(n) == [t |-> "int", s |-> <<>>, n |-> n]
\* docs given as one string
OneDocument == [single |-> TRUE, items |-> <<StrDoc(<<"d">>)>>]

\* A distance of d tenths
Tenths(d) == [m |-> d, e |-> 1]
\* The distances of a query to the rows of a table, nearest row first
NearestFirst == <<Tenths(1), Tenths(2), Tenths(3), Tenths(4)>>

VARIABLES
    tables,      \* engine: table name -> [id (0: absent), w (vector width), rows]
    nextId,      \* engine: id of the next table incarnation
    connects,    \* engine: connections handed out by lancedb.connect
    dbConn,      \* _db_connection (0: None)
    cache,       \* _table_cache: name -> handle (NoHandle: no such key)
    faults,      \* engine calls that failed so far
    pr           \* per caller: the running operation, its locals and its result

vars == <<tables, nextId, connects, dbConn, cache, faults, pr>>

NoLast == [op |-> "none", name |-> <<>>, res |-> "", cok |-> FALSE, cmsg |-> "",
           absent0 |-> FALSE, nCreate |-> 0]

\* An exception of open_table_with_retry: the attempt it was raised in and the
\* call that raised it
NoError == [att |-> -1, at |-> "none"]

InitProc ==
    [pc |-> "idle", op |-> "none", name |-> <<>>, safe |-> <<>>, target |-> <<>>,
     auto |-> FALSE, topk |-> 0, warg |-> 0, metricOk |-> TRUE,
     maxr |-> 0, att |-> 0, arrow |-> FALSE, cret |-> "",
     cok |-> FALSE, cmsg |-> "", ch |-> NoHandle,
     vmax |-> 0, vatt |-> 0, vlist |-> {}, vidx |-> 0, vret |-> "", vres |-> FALSE,
     vtries |-> 0, vfound |-> <<>>, before |-> <<>>, schema |-> <<>>, row |-> <<>>,
     opens |-> 0, opened |-> 0, errs |-> <<>>, exc |-> NoError,
     gc |-> "no", db |-> 0, h |-> NoHandle, force |-> FALSE, gret |-> "",
     res |-> "", n |-> 0, sawVerify |-> FALSE, nCreate |-> 0, absent0 |-> FALSE,
     emb |-> 0, added |-> 0, calls |-> 0, cache0 |-> <<>>, rowcount |-> -1,
     dropped |-> FALSE, evicted |-> {},
     autoRows |-> -1, searches |-> 0, badSearch |-> FALSE, filter |-> <<>>,
     upd |-> "", removed |-> 0, hits |-> -1,
     fexpr |-> <<>>, parts |-> <<>>, thrArg |-> NoFloat, thr |-> NoFloat,
     where |-> <<>>, ranking |-> NearestFirst, matched |-> -1, limit |-> 0,
     raw |-> <<>>, out |-> <<>>,
     drops |-> 0, checks |-> 0, seen |-> FALSE,
     known |-> {}, entries |-> {}, count |-> -1, enumFailed |-> FALSE,
     docsIn |-> OneDocument, docs |-> <<>>, rowsAdded |-> 0,
     track |-> FALSE, hist |-> <<>>, probe |-> "none", updates |-> 0,
     seed |-> HashSeed,
     last |-> NoLast]

\* The engine's listing and open
Listed == {n \in DOMAIN tables : tables[n].id /= 0}
Present(n) == n \in DOMAIN tables /\ tables[n].id /= 0
HandleOf(n) == [id |-> tables[n].id, w |-> tables[n].w, rows |-> tables[n].rows]
\* A handle is live while its incarnation is still the table of that name
Live(n, h) == Present(n) /\ tables[n].id = h.id

\* Whether an engine call may fail now, under fault budget B
FaultChoices(B) == IF faults < B THEN {FALSE, TRUE} ELSE {FALSE}
Bump(f) == IF f THEN faults + 1 ELSE faults

SetProc(p, r) == pr' = [pr EXCEPT ![p] = r]

\* ------------------------------------------------------------------------
\* Returning from an operation
\* ------------------------------------------------------------------------

OpReturn(r, res) ==
    [r EXCEPT !.pc = "done", !.res = res, !.n = @ + 1,
              !.vmax = 0, !.vatt = 0, !.vlist = {}, !.vidx = 0, !.vret = "",
              !.vres = FALSE, !.gc = "no", !.cret = "", !.gret = "",
              !.warg = 0, !.arrow = FALSE, !.rowcount = -1]

\* An exception leaving the operation (no handler caught it)
OpRaise(r) == OpReturn(r, "raised")

\* log_exception(logger, error_msg): writes the traceback to the log and returns
log_exception(r) == r

\* No handler around the body of the operation
OpExceptUncaught(r, res) == OpRaise(r)

\* except Exception as e: (the handler around the whole body of a public
\* operation) logger.error(error_msg); log_exception(logger, error_msg);
\* return f"Error: {error_msg}"
OpExcept(r, res) == OpReturn(log_exception(r), res)

\* ------------------------------------------------------------------------
\* create_table_with_retry: returning, retrying (continuations of the loop)
\* ------------------------------------------------------------------------

\* What the caller of create_table_with_retry does with the returned triple
AfterCwr(r) ==
    CASE r.cret = "ct_ret" -> OpReturn(r, r.cmsg)
      [] r.cret = "cwr_ret" -> OpReturn(r, r.cmsg)
      [] r.cret \in {"q_cwr", "h_cwr"} ->
            IF r.cok
            THEN OpReturn([r EXCEPT !.autoRows = tables[r.safe].rows],
                          IF r.topk = 0 THEN "false" ELSE "empty")
            ELSE OpReturn(r, "err_autocreate")
      [] r.cret = "i_cwr" ->
            IF r.cok THEN [r EXCEPT !.h = r.ch, !.pc = "i_add"]
            ELSE OpReturn(r, "err_autocreate")

\* return success, message, table
CwrReturn(r, ok, msg, handle) ==
    AfterCwr([r EXCEPT !.cok = ok, !.cmsg = msg, !.ch = handle])

\* verify_table_exists(safe_table_name, max_retries=max), continuing at ret
CallVerify(r, max, ret) ==
    [r EXCEPT !.vmax = max, !.vatt = 0, !.vlist = {}, !.vidx = 0, !.vret = ret,
              !.pc = "v_open"]

\* Top of "for attempt in range(max_retries)"; past the loop, the final return
CwrLoop(r) ==
    IF r.att < r.maxr THEN CallVerify(r, VerifyRetriesDefault, "c_v1")
    ELSE CwrReturn(r, FALSE, "failed_after", NoHandle)

\* "continue", or falling out of the try block on the last attempt
CwrNext(r) == CwrLoop([r EXCEPT !.att = @ + 1])

\* An exception reaching the caller of create_table_with_retry
CwrPropagate(r) ==
    CASE r.cret = "ct_ret" -> OpExcept(r, "err_create_exc")
      [] r.cret = "cwr_ret" -> OpRaise(r)
      [] r.cret = "q_cwr" -> OpExcept(r, "err_query")
      [] r.cret = "h_cwr" -> OpExcept(r, "err_hybrid")
      [] r.cret = "i_cwr" -> OpExcept(r, "err_ingest")

\* No handler: the exception leaves create_table_with_retry
CwrExceptUncaught(r) == CwrPropagate(r)

\* except Exception as e (the outer handler of the attempt)
CwrExcept(r) ==
    IF r.att < r.maxr - 1 THEN CwrNext(r)
    ELSE CwrReturn(r, FALSE, "err_after", NoHandle)

\* except ValueError as e, without "already exists" in the message
CwrValueError(r) ==
    IF r.att < r.maxr - 1 THEN CwrNext(r)
    ELSE CwrReturn(r, FALSE, "err_create", NoHandle)

\* ------------------------------------------------------------------------
\* get_table_cached: returning to its caller
\* ------------------------------------------------------------------------

\* raise e: the exception reaches the caller of get_table_cached
GtcRaise(r) ==
    CASE r.gret = "q_got" -> OpExcept(r, "err_query")
      [] r.gret = "q_got2" -> OpReturn(r, "err_search")
      [] r.gret = "h_got" -> OpExcept(r, "err_hybrid")
      [] r.gret = "gtc_ret" -> OpRaise(r)

AfterGtc(r) ==
    CASE r.gret = "q_got" -> [r EXCEPT !.pc = "q_count"]
      [] r.gret = "q_got2" -> [r EXCEPT !.pc = "q_search2"]
      [] r.gret = "h_got" ->
            IF r.metricOk THEN [r EXCEPT !.pc = "h_search"]
            ELSE OpReturn(r, "err_metric")
      [] r.gret = "gtc_ret" -> OpReturn(r, "handle")

CallGtc(r, force, ret) == [r EXCEPT !.force = force, !.gret = ret, !.pc = "g_check"]

\* create_table_with_retry(table_name, schema, max_retries), continuing at ret
CallCwr(r, maxr, w, ret) ==
    [r EXCEPT !.maxr = maxr, !.warg = w, !.att = 0, !.cret = ret, !.pc = "c_conv",
              !.sawVerify = FALSE, !.nCreate = 0, !.cok = FALSE, !.cmsg = "",
              !.ch = NoHandle]

\* ------------------------------------------------------------------------
\* verify_table_exists: returning, retrying
\* ------------------------------------------------------------------------

\* What the caller of verify_table_exists does with the returned boolean
AfterVerify(r) ==
    CASE r.vret = "c_v1" ->
            IF r.vres THEN [r EXCEPT !.pc = "c_open_exist"]
            ELSE [r EXCEPT !.pc = "c_create"]
      [] r.vret = "c_v2" ->
            IF r.vres
            THEN CwrReturn(r, TRUE, IF r.safe /= r.name THEN "created_as" ELSE "created",
                           r.ch)
            ELSE CwrNext(r)
      [] r.vret = "c_v3" ->
            IF r.vres THEN [r EXCEPT !.pc = "c_open_conc"] ELSE CwrNext(r)
      [] r.vret = "q_v" ->
            IF r.vres THEN CallGtc(r, FALSE, "q_got")
            ELSE IF ~r.auto THEN OpReturn(r, "err_missing")
            ELSE CallCwr(r, CreateRetriesDefault, ModelDims, "q_cwr")
      [] r.vret = "h_v" ->
            IF r.vres THEN CallGtc(r, FALSE, "h_got")
            ELSE IF ~r.auto THEN OpReturn(r, "err_missing")
            ELSE CallCwr(r, CreateRetriesDefault, ModelDims, "h_cwr")
      [] r.vret = "ti_v" ->
            IF r.vres THEN [r EXCEPT !.pc = "ti_open"]
            ELSE OpReturn(r, "err_missing")
      [] r.vret = "v_ret" -> OpReturn(r, IF r.vres THEN "true" ELSE "false")

\* No check of the result: the caller goes on as if the table were there
VerifyReturnAssumed(r, b) ==
    AfterVerify([r EXCEPT !.vres = TRUE, !.vmax = 0, !.vatt = 0, !.vlist = {},
                          !.vidx = 0, !.sawVerify = @ \/ b])

\* return True / return False, in attempt number r.vatt + 1
VerifyReturn(r, b) ==
    AfterVerify([r EXCEPT !.vres = b, !.vmax = 0, !.vatt = 0, !.vlist = {},
                          !.vidx = 0, !.sawVerify = @ \/ b, !.vtries = r.vatt + 1])

\* No second pass: the first failed attempt is the answer
VerifyGiveUp(r) == VerifyReturn(r, FALSE)

\* "if attempt < max_retries - 1: continue / return False"
VerifyRetry(r) ==
    IF r.vatt < r.vmax - 1
    THEN [r EXCEPT !.vatt = @ + 1, !.vlist = {}, !.vidx = 0, !.pc = "v_open"]
    ELSE VerifyReturn(r, FALSE)

name_variants(n) == <<n, StrLower(n), StrUpper(n), StrCapitalize(n)>>

\* The next variant from position i on that is in the listing (0: none)
NextVariant(n, list, i) ==
    LET c == {j \in i..4 : name_variants(n)[j] \in list}
    IN  IF c = {} THEN 0 ELSE CHOOSE j \in c : \A k \in c : j <= k

\* "for variant in name_variants": on to the next listed variant, or out of the loop
VerifyNextVariant(r, i) ==
    LET j == NextVariant(r.safe, r.vlist, i)
    IN  IF j = 0 THEN VerifyRetry(r) ELSE [r EXCEPT !.vidx = j, !.pc = "v_var"]

\* ------------------------------------------------------------------------
\* get_connection
\* ------------------------------------------------------------------------

\* What the caller of get_all_tables() does with the returned names
AfterGat(r, names) ==
    IF r.op = "table_count"
    THEN OpReturn([r EXCEPT !.known = Listed, !.count = Cardinality(names)], "count_dict")
    ELSE [r EXCEPT !.known = Listed, !.vlist = names, !.pc = "lt_info"]

\* ------------------------------------------------------------------------
\* open_table_with_retry: the loop and its handler
\* ------------------------------------------------------------------------

\* for attempt in range(max_retries): the pass for attempt r.att, or, when the
\* range has no such value, the end of the function body, where Python
\* returns None
OtrLoop(r) ==
    IF r.att < r.maxr THEN [r EXCEPT !.pc = "o_open"]
    ELSE OpReturn(r, "none")

\* except Exception as e: if attempt < max_retries - 1: continue / else: raise e
OtrExcept(r, at) ==
    LET e == [att |-> r.att, at |-> at]
        u == [r EXCEPT !.errs = Append(@, e)]
    IN  IF r.att < r.maxr - 1
        THEN OtrLoop([u EXCEPT !.att = @ + 1])
        ELSE OpRaise([u EXCEPT !.exc = e])

\* Places that call get_connection() right before their engine call
ConnPcs == {"o_open", "v_open", "c_open_exist", "c_create", "c_open_conc", "g_open",
            "d_list", "d_check", "d_alt_check", "gc_call", "gat", "lt_info", "ti_open"}

\* An exception raised by get_connection() at the place the caller is at
ConnRaise(r) ==
    CASE r.pc = "v_open" -> VerifyRetry(r)
      [] r.pc = "o_open" -> OtrExcept(r, "connect")
      [] r.pc \in {"c_open_exist", "c_create", "c_open_conc"} -> CwrExcept(r)
      [] r.pc = "g_open" -> GtcRaise(r)
      [] r.pc \in {"d_list", "d_check"} -> OpExcept(r, "err_delete")
      [] r.pc = "d_alt_check" -> OpReturn(r, "err_still_exists")
      [] r.pc = "gc_call" -> OpRaise(r)
      [] r.pc = "gat" -> AfterGat([r EXCEPT !.enumFailed = TRUE], {})
      [] r.pc = "lt_info" -> OpReturn(r, "err_list")
      [] r.pc = "ti_open" -> OpExcept(r, "err_info")

\* get_connection() returned a handle at this place: the memoized connection
\* was there (read at the call), or this caller has just connected
HasConn(r) == r.gc = "have" \/ (r.gc = "no" /\ dbConn /= 0)
ConnOf(r) == IF r.gc = "have" THEN r.db ELSE dbConn
\* The caller's record as its engine call starts
Use(r) == [r EXCEPT !.gc = "no", !.db = ConnOf(r), !.calls = @ + 1]

\* if _db_connection is None: (seen None)
GcCheck(p) ==
    LET r == pr[p] IN
    /\ r.pc \in ConnPcs /\ r.gc = "no" /\ dbConn = 0
    /\ SetProc(p, [r EXCEPT !.gc = "miss"])
    /\ UNCHANGED <<tables, nextId, connects, dbConn, cache, faults>>

\* _db_connection = lancedb.connect(LANCEDB_URI, ...)
GcConnect(p, B) ==
    LET r == pr[p] IN
    /\ r.gc = "miss"
    /\ \E f \in FaultChoices(B) :
         /\ faults' = Bump(f)
         /\ IF f
            THEN /\ SetProc(p, ConnRaise([r EXCEPT !.gc = "no"]))
                 /\ UNCHANGED <<connects, dbConn>>
            ELSE /\ connects' = connects + 1
                 /\ dbConn' = connects + 1
                 /\ SetProc(p, [r EXCEPT !.gc = "set"])
    /\ UNCHANGED <<tables, nextId, cache>>

\* return _db_connection
GcReturn(p) ==
    LET r == pr[p] IN
    /\ r.gc = "set"
    /\ SetProc(p, [r EXCEPT !.gc = "have", !.db = dbConn])
    /\ UNCHANGED <<tables, nextId, connects, dbConn, cache, faults>>

\* ------------------------------------------------------------------------
\* verify_table_exists
\* ------------------------------------------------------------------------

\* db = get_connection(); table = db.open_table(table_name); _ = table.schema
VOpen(p, B) ==
    LET r == pr[p]
        u == Use(r)
    IN
    /\ r.pc = "v_open" /\ HasConn(r)
    /\ \E f \in FaultChoices(B) :
         /\ faults' = Bump(f)
         /\ IF ~f /\ Present(r.safe)
            THEN SetProc(p, VerifyReturn([u EXCEPT !.vfound = r.safe], TRUE))
            ELSE SetProc(p, [u EXCEPT !.pc = "v_list"])
    /\ UNCHANGED <<tables, nextId, connects, dbConn, cache>>

\* except Exception: table_names = db.table_names()
VList(p, B) ==
    LET r == pr[p]
        u == Use(r)
    IN
    /\ r.pc = "v_list"
    /\ \E f \in FaultChoices(B) :
         /\ faults' = Bump(f)
         /\ IF f
            THEN SetProc(p, VerifyRetry(u))
            ELSE SetProc(p, VerifyNextVariant([u EXCEPT !.vlist = Listed], 1))
    /\ UNCHANGED <<tables, nextId, connects, dbConn, cache>>

\* if variant in table_names: table = db.open_table(variant); _ = table.schema
VVar(p, B) ==
    LET r == pr[p]
        u == Use(r)
    IN
    /\ r.pc = "v_var"
    /\ \E f \in FaultChoices(B) :
         /\ faults' = Bump(f)
         /\ IF ~f /\ Present(name_variants(r.safe)[r.vidx])
            THEN SetProc(p, VerifyReturn([u EXCEPT !.vfound = name_variants(r.safe)[r.vidx],
                                                   !.known = r.vlist], TRUE))
            ELSE SetProc(p, VerifyNextVariant(u, r.vidx + 1))
    /\ UNCHANGED <<tables, nextId, connects, dbConn, cache>>

\* ------------------------------------------------------------------------
\* create_table_with_retry
\* ------------------------------------------------------------------------

\* schema.to_arrow_schema(), keeping the original schema when it fails
CConv(p, B) ==
    LET r == pr[p] IN
    /\ r.pc = "c_conv"
    /\ \E f \in FaultChoices(B) :
         /\ faults' = Bump(f)
         /\ SetProc(p, CwrLoop([r EXCEPT !.arrow = ~f]))
    /\ UNCHANGED <<tables, nextId, connects, dbConn, cache>>

\* db = get_connection(); table = db.open_table(safe_table_name); return True, ...
COpenExist(p, B) ==
    LET r == pr[p]
        u == Use(r)
    IN
    /\ r.pc = "c_open_exist" /\ HasConn(r)
    /\ \E f \in FaultChoices(B) :
         /\ faults' = Bump(f)
         /\ IF ~f /\ Present(r.safe)
            THEN SetProc(p, CwrReturn(u, TRUE, "exists", HandleOf(r.safe)))
            ELSE SetProc(p, CwrExcept(u))
    /\ UNCHANGED <<tables, nextId, connects, dbConn, cache>>

\* What db.create_table can do: what the engine does with the request, or a
\* failure: another exception, a ValueError that is not "already exists", or a
\* handle returned for a table that did not persist
CreateOutcomes(B) ==
    {"engine"} \cup (IF faults < B THEN {"other", "value", "lost"} ELSE {})

\* db = get_connection(); table = db.create_table(safe_table_name, schema=schema)
CCreate(p, B) ==
    LET r == pr[p]
        u == [Use(r) EXCEPT !.nCreate = @ + 1]
        made == [id |-> nextId, w |-> r.warg]
    IN
    /\ r.pc = "c_create" /\ HasConn(r)
    /\ \E k \in CreateOutcomes(B) :
         /\ faults' = Bump(k /= "engine")
         /\ CASE k = "engine" /\ ~Present(r.safe) ->
                   /\ tables' = [tables EXCEPT ![r.safe] =
                                     [id |-> nextId, w |-> r.warg, rows |-> 0,
                                      torn |-> 0]]
                   /\ nextId' = nextId + 1
                   /\ SetProc(p, CallVerify([u EXCEPT !.ch = made],
                                            VerifyRetriesAfterCreate, "c_v2"))
              [] k = "engine" /\ Present(r.safe) ->
                   /\ SetProc(p, CallVerify(u, VerifyRetriesAfterCreate, "c_v3"))
                   /\ UNCHANGED <<tables, nextId>>
              [] k = "lost" ->
                   /\ nextId' = nextId + 1
                   /\ SetProc(p, CallVerify([u EXCEPT !.ch = made],
                                            VerifyRetriesAfterCreate, "c_v2"))
                   /\ UNCHANGED tables
              [] k = "value" ->
                   /\ SetProc(p, CwrValueError(u))
                   /\ UNCHANGED <<tables, nextId>>
              [] k = "other" ->
                   /\ SetProc(p, CwrExcept(u))
                   /\ UNCHANGED <<tables, nextId>>
    /\ UNCHANGED <<connects, dbConn, cache>>

\* "already exists" race: db = get_connection(); table = db.open_table(safe_table_name)
COpenConc(p, B) ==
    LET r == pr[p]
        u == Use(r)
    IN
    /\ r.pc = "c_open_conc" /\ HasConn(r)
    /\ \E f \in FaultChoices(B) :
         /\ faults' = Bump(f)
         /\ IF ~f /\ Present(r.safe)
            THEN SetProc(p, CwrReturn(u, TRUE,
                            IF r.safe /= r.name THEN "concurrent_as" ELSE "concurrent",
                            HandleOf(r.safe)))
            ELSE SetProc(p, CwrExcept(u))
    /\ UNCHANGED <<tables, nextId, connects, dbConn, cache>>

\* ------------------------------------------------------------------------
\* Starting an operation
\* ------------------------------------------------------------------------

Summary(r) ==
    IF r.op = "none" THEN NoLast
    ELSE [op |-> r.op, name |-> r.name, res |-> r.res, cok |-> r.cok,
          cmsg |-> r.cmsg, absent0 |-> r.absent0, nCreate |-> r.nCreate]

CanStart(r, M) == r.pc \in {"idle", "done"} /\ r.n < M

\* History: what an operation returned, kept for the callers that track it
Outcome(r) ==
    [op |-> r.op, res |-> r.res, count |-> r.count, hits |-> r.hits, k |-> Len(r.docs)]

Begin(r, op, name) ==
    [InitProc EXCEPT !.op = op, !.name = name, !.safe = sanitize_table_name(name),
                     !.n = r.n, !.evicted = r.evicted, !.last = Summary(r),
                     !.track = r.track,
                     !.hist = IF r.track /\ r.op /= "none"
                              THEN Append(r.hist, Outcome(r)) ELSE r.hist,
                     !.absent0 = ~Present(sanitize_table_name(name))]

\* create_table(table_name, schema): the schema's vector width is w
StartCreateTable(p, M, names, widths) ==
    /\ CanStart(pr[p], M)
    /\ \E name \in names, w \in widths :
         SetProc(p, CallCwr(Begin(pr[p], "create_table", name),
                            CreateRetriesDefault, w, "ct_ret"))
    /\ UNCHANGED <<tables, nextId, connects, dbConn, cache, faults>>

\* create_table_with_retry(table_name, Schema, max_retries) called directly
StartCwr(p, M, names, retries) ==
    /\ CanStart(pr[p], M)
    /\ \E name \in names, maxr \in retries :
         SetProc(p, CallCwr(Begin(pr[p], "create_table_with_retry", name),
                            maxr, ModelDims, "cwr_ret"))
    /\ UNCHANGED <<tables, nextId, connects, dbConn, cache, faults>>

\* verify_table_exists(table_name, max_retries) called directly: the name is
\* used as it is given; "for attempt in range(0)" has no pass and falls
\* through to the final return False
StartVerify(p, M, names, retries) ==
    /\ CanStart(pr[p], M)
    /\ \E name \in names, max \in retries :
         LET r == [Begin(pr[p], "verify_table_exists", name)
                     EXCEPT !.safe = name, !.maxr = max]
         IN  SetProc(p, IF max = 0 THEN OpReturn(r, "false")
                        ELSE CallVerify(r, max, "v_ret"))
    /\ UNCHANGED <<tables, nextId, connects, dbConn, cache, faults>>

\* open_table_with_retry(table_name, max_retries): the name is used as it is
\* given
StartOpenRetry(p, M, names, retries) ==
    /\ CanStart(pr[p], M)
    /\ \E name \in names, max \in retries :
         SetProc(p, OtrLoop([Begin(pr[p], "open_table_with_retry", name)
                               EXCEPT !.safe = name, !.maxr = max]))
    /\ UNCHANGED <<tables, nextId, connects, dbConn, cache, faults>>

\* ------------------------------------------------------------------------
\* Initial states
\* ------------------------------------------------------------------------

\* The engine as the process finds it: any of the tables earlier runs created,
\* with vector widths and row counts from the given sets
EngineStates(widths, rowcounts) ==
    {[n \in AllNames |-> IF n \in TableNames THEN f[n] ELSE NoTable] :
        f \in [TableNames -> {NoTable} \cup [id : {1}, w : widths, rows : rowcounts,
                                              torn : {0}]]}

InitWith(engines, callers) ==
    /\ tables \in engines
    /\ nextId = 2
    /\ connects = 0
    /\ dbConn = 0
    /\ cache = [n \in AllNames |-> NoHandle]
    /\ faults = 0
    /\ pr = [p \in Callers |-> IF p \in callers THEN InitProc
                               ELSE [InitProc EXCEPT !.pc = "off"]]

\* ------------------------------------------------------------------------
\* The engine's other clients
\* ------------------------------------------------------------------------

\* Another client of the same database creates the table between two calls of
\* this process (the race the "already exists" handler is written for)
EnvCreate(names, B) ==
    /\ faults < B
    /\ \E n \in names :
         /\ ~Present(n)
         /\ tables' = [tables EXCEPT ![n] = [id |-> nextId, w |-> ModelDims, rows |-> 0,
                                             torn |-> 0]]
    /\ nextId' = nextId + 1
    /\ faults' = faults + 1
    /\ UNCHANGED <<connects, dbConn, cache, pr>>

\* ------------------------------------------------------------------------
\* Calls on a table handle
\* ------------------------------------------------------------------------

\* What a call on handle h of table n can do: act on the table ("ok"), raise
\* because the handle's incarnation was dropped ("stale": what such a handle
\* does is not defined, it may also reach the table now stored under the
\* name), or fail in the engine ("fault")
HandleOutcomes(n, h, B) ==
    (IF Present(n) THEN {"ok"} ELSE {})
      \cup (IF ~Live(n, h) THEN {"stale"} ELSE {})
      \cup (IF faults < B THEN {"fault"} ELSE {})

\* The row counts a read through handle h of table n can see. The connection
\* is made with a read consistency interval of WEAK_READ_CONSISTENCY_INTERVAL
\* seconds (or, where the engine accepts neither parameter, with none): a
\* handle looks for newer versions of its table only when the interval has
\* passed since it last looked, so a read sees the version the handle was
\* opened on or the latest one.
RowsSeen(n, h) == {h.rows, tables[n].rows}

\* ------------------------------------------------------------------------
\* get_table_cached
\* ------------------------------------------------------------------------

\* No lookup: the table is opened on every call
GCheckAlways(p) ==
    LET r == pr[p] IN
    /\ r.pc = "g_check"
    /\ SetProc(p, [r EXCEPT !.pc = "g_open"])
    /\ UNCHANGED <<tables, nextId, connects, dbConn, cache, faults>>

\* if force_refresh or table_name not in _table_cache:
GCheck(p) ==
    LET r == pr[p] IN
    /\ r.pc = "g_check"
    /\ SetProc(p, [r EXCEPT !.pc = IF r.force \/ cache[r.safe] = NoHandle
                                   THEN "g_open" ELSE "g_ret"])
    /\ UNCHANGED <<tables, nextId, connects, dbConn, cache, faults>>

\* db = get_connection(); table = db.open_table(table_name)
GOpen(p, B) ==
    LET r == pr[p]
        u == Use(r)
    IN
    /\ r.pc = "g_open" /\ HasConn(r)
    /\ \E f \in FaultChoices(B) :
         /\ faults' = Bump(f)
         /\ IF ~f /\ Present(r.safe)
            THEN SetProc(p, [u EXCEPT !.h = HandleOf(r.safe), !.pc = "g_store"])
            ELSE SetProc(p, GtcRaise(u))
    /\ UNCHANGED <<tables, nextId, connects, dbConn, cache>>

\* _table_cache[table_name] = table
GStore(p) ==
    LET r == pr[p] IN
    /\ r.pc = "g_store"
    /\ cache' = [cache EXCEPT ![r.safe] = r.h]
    /\ SetProc(p, [r EXCEPT !.pc = "g_ret"])
    /\ UNCHANGED <<tables, nextId, connects, dbConn, faults>>

\* return _table_cache[table_name] (KeyError when the key is gone)
GRet(p) ==
    LET r == pr[p] IN
    /\ r.pc = "g_ret"
    /\ IF cache[r.safe] = NoHandle
       THEN SetProc(p, GtcRaise(r))
       ELSE SetProc(p, AfterGtc([r EXCEPT !.h = cache[r.safe]]))
    /\ UNCHANGED <<tables, nextId, connects, dbConn, cache, faults>>

\* get_table_cached(table_name, force_refresh) called directly
StartGtc(p, M, names, forces) ==
    /\ CanStart(pr[p], M)
    /\ \E name \in names, force \in forces :
         SetProc(p, CallGtc([Begin(pr[p], "get_table_cached", name)
                                EXCEPT !.safe = name, !.cache0 = cache],
                            force, "gtc_ret"))
    /\ UNCHANGED <<tables, nextId, connects, dbConn, cache, faults>>

\* ------------------------------------------------------------------------
\* get_connection called directly
\* ------------------------------------------------------------------------

StartGetConn(p, M) ==
    /\ CanStart(pr[p], M)
    /\ SetProc(p, [Begin(pr[p], "get_connection", <<>>) EXCEPT !.pc = "gc_call"])
    /\ UNCHANGED <<tables, nextId, connects, dbConn, cache, faults>>

GcCallRet(p) ==
    LET r == pr[p] IN
    /\ r.pc = "gc_call" /\ HasConn(r)
    /\ SetProc(p, OpReturn([r EXCEPT !.db = ConnOf(r)], "conn"))
    /\ UNCHANGED <<tables, nextId, connects, dbConn, cache, faults>>

\* ------------------------------------------------------------------------
\* query_table
\* ------------------------------------------------------------------------

StartQuery(p, M, names, topks, autos) ==
    /\ CanStart(pr[p], M)
    /\ \E name \in names, k \in topks, a \in autos :
         LET r == [Begin(pr[p], "query_table", name) EXCEPT !.topk = k, !.auto = a]
         IN IF k < 0 THEN SetProc(p, OpReturn(r, "err_topk"))
            ELSE SetProc(p, CallVerify(r, VerifyRetriesDefault, "q_v"))
    /\ UNCHANGED <<tables, nextId, connects, dbConn, cache, faults>>

\* The empty result set, whatever top_k is
EmptyResultList(r) == OpReturn(r, "empty")

\* return False if top_k == 0 else {"results": [], ..., "count": 0}
EmptyResult(r) == OpReturn(r, IF r.topk = 0 THEN "false" ELSE "empty")

NoHits(n, k) == 0

\* What to_list() returns after limit(k): the k nearest of the n rows read
Hits(n, k) == IF n < k THEN n ELSE k

\* table.search(query, ...) is called: one more search attempt of the operation;
\* badSearch records a search on a non-empty table of another width than the model's
SearchIssued(r) ==
    [r EXCEPT !.searches = @ + 1,
              !.badSearch = @ \/ (/\ Present(r.safe) /\ tables[r.safe].rows > 0
                                  /\ tables[r.safe].w /= ModelDims)]

\* row_count = table.count_rows(); a failure is logged and the query goes on
QCount(p, B) ==
    LET r == pr[p]
        u == Use(r)
    IN
    /\ r.pc = "q_count"
    /\ \E k \in HandleOutcomes(r.safe, r.h, B), row_count \in RowsSeen(r.safe, r.h) :
         /\ faults' = Bump(k = "fault")
         /\ IF k = "ok"
            THEN IF row_count = 0
                 THEN SetProc(p, EmptyResult(u))
                 ELSE SetProc(p, [u EXCEPT !.rowcount = row_count, !.pc = "q_schema"])
            ELSE SetProc(p, [u EXCEPT !.pc = "q_schema"])
    /\ UNCHANGED <<tables, nextId, connects, dbConn, cache>>

\* schema = table.schema; if table_dims and table_dims != model.ndims(): return error
QSchema(p, B) ==
    LET r == pr[p]
        u == Use(r)
    IN
    /\ r.pc = "q_schema"
    /\ \E f \in FaultChoices(B) :
         /\ faults' = Bump(f)
         /\ IF f THEN SetProc(p, OpExcept(u, "err_query"))
            ELSE IF r.h.w /= 0 /\ r.h.w /= ModelDims
                 THEN SetProc(p, OpReturn(u, "err_dims"))
            ELSE SetProc(p, [u EXCEPT !.pc = "q_search"])
    /\ UNCHANGED <<tables, nextId, connects, dbConn, cache>>

\* The first failure is answered with the error, without a retry
SearchFailedNoRetry(r) == OpReturn(r, "err_search")

\* except Exception as search_error: table = get_table_cached(safe_table_name,
\* force_refresh=True) and the search again; except Exception as retry_error:
\* return f"Error: Unable to search table ..."
SearchFailed(r) ==
    IF r.pc = "q_search" THEN CallGtc(r, TRUE, "q_got2")
    ELSE OpReturn(r, "err_search")

\* results = table.search(query, query_type="vector"), and the same call of
\* the retry after get_table_cached(safe_table_name, force_refresh=True)
QSearch(p, B) ==
    LET r == pr[p]
        u == SearchIssued(Use(r))
    IN
    /\ r.pc \in {"q_search", "q_search2"}
    /\ \E k \in HandleOutcomes(r.safe, r.h, B) :
         /\ faults' = Bump(k = "fault")
         /\ IF k = "ok" THEN SetProc(p, [u EXCEPT !.pc = "q_exec"])
            ELSE SetProc(p, SearchFailed(u))
    /\ UNCHANGED <<tables, nextId, connects, dbConn, cache>>

\* results.limit(1).to_list() for top_k = 0, else
\* results.limit(top_k).select(["doc", "_distance"]).to_list()
QExec(p, B) ==
    LET r == pr[p]
        u == Use(r)
    IN
    /\ r.pc = "q_exec"
    /\ \E k \in HandleOutcomes(r.safe, r.h, B), n \in RowsSeen(r.safe, r.h) :
         /\ faults' = Bump(k = "fault")
         /\ IF k = "ok"
            THEN IF r.topk = 0
                 THEN SetProc(p, OpReturn([u EXCEPT !.hits = Hits(n, 1)],
                                          IF Hits(n, 1) > 0 THEN "true" ELSE "false"))
                 ELSE SetProc(p, OpReturn([u EXCEPT !.hits = Hits(n, r.topk)],
                                          "results"))
            ELSE SetProc(p, IF r.topk = 0 THEN OpReturn(u, "false_exc")
                            ELSE OpExcept(u, "err_query"))
    /\ UNCHANGED <<tables, nextId, connects, dbConn, cache>>

\* ------------------------------------------------------------------------
\* hybrid_search
\* ------------------------------------------------------------------------

\* The three patterns, in the order the loop tries them
distance_filter_patterns ==
    << <<"_", "d", "i", "s", "t", "a", "n", "c", "e">>,
       <<"d", "i", "s", "t", "a", "n", "c", "e">>,
       <<"s", "c", "o", "r", "e">> >>

\* operator in ['<=', '<', '==', '=']
ConvertibleOperators == {<<"<", "=">>, <<"<">>, <<"=", "=">>, <<"=">>}

\* The first pattern of the list that matches somewhere in the filter (0: none)
FirstPattern(s) ==
    LET hit == {i \in DOMAIN distance_filter_patterns :
                   SearchClause(s, distance_filter_patterns[i]) /= NoClause}
    IN IF hit = {} THEN 0 ELSE CHOOSE i \in hit : \A j \in hit : i <= j

\* The three re.sub calls and the strips that follow the match
ConvertFilter(s, kw) ==
    StrStrip(StripConnective(StrStrip(StripConnective(StrStrip(RemoveClauses(s, kw)),
                                                      <<"a", "n", "d">>)),
                             <<"o", "r">>))

\* The filter rewriting of hybrid_search: the expression left for the engine
\* (<<>>: none), the threshold taken from the filter (NoFloat: none), and
\* whether float() raised
RewriteFilter(s) ==
    LET i == FirstPattern(s)
        kw == distance_filter_patterns[i]
        m == SearchClause(s, kw)
        v == ParseFloat(m.num)
    IN IF i = 0 THEN [err |-> FALSE, where |-> s, thr |-> NoFloat]
       ELSE IF v = NoFloat THEN [err |-> TRUE, where |-> s, thr |-> NoFloat]
       ELSE [err |-> FALSE, where |-> ConvertFilter(s, kw),
             thr |-> IF StrStrip(m.op) \in ConvertibleOperators THEN v ELSE NoFloat]

RECURSIVE Pow10(_)
Pow10(e) == IF e = 0 THEN 1 ELSE 10 * Pow10(e - 1)

\* distance <= distance_threshold, both as m / 10^e
NoThresholdTest(d, t) == TRUE

WithinThreshold(d, t) == d.m * Pow10(t.e) <= t.m * Pow10(d.e)

\* The post-filtering loop: a hit is kept when it carries no distance or its
\* distance is within the threshold; the loop stops at top_k kept hits
RECURSIVE Collect(_, _, _, _)
Collect(results, filtered, t, top_k) ==
    IF results = <<>> THEN filtered
    ELSE LET result == Head(results)
             kept == IF result.d = NoFloat \/ WithinThreshold(result.d, t)
                     THEN Append(filtered, result) ELSE filtered
         IN IF Len(kept) >= top_k THEN kept
            ELSE Collect(Tail(results), kept, t, top_k)

Truncate(s, k) == SubSeq(s, 1, IF Len(s) < k THEN Len(s) ELSE k)

\* The rows the engine returns for limit(k): the nearest rows that pass the
\* filter, at most k of them, each with its distance to the query
Fetch(r, matched, k) ==
    [i \in 1..Len(Truncate(Truncate(r.ranking, matched), k)) |->
        [id |-> i, d |-> r.ranking[i]]]

\* The numbers of rows that can pass the engine's filter
Matching(r) ==
    IF ~Present(r.safe) THEN {0}
    ELSE IF r.where = <<>> THEN RowsSeen(r.safe, r.h)
    ELSE UNION {0..n : n \in RowsSeen(r.safe, r.h)}

StartHybrid(p, M, names, topks, autos, metrics) ==
    /\ CanStart(pr[p], M)
    /\ \E name \in names, k \in topks, a \in autos, m \in metrics :
         LET r == [Begin(pr[p], "hybrid_search", name)
                      EXCEPT !.topk = k, !.auto = a, !.metricOk = m]
         IN IF k < 0 THEN SetProc(p, OpReturn(r, "err_topk"))
            ELSE SetProc(p, CallVerify(r, VerifyRetriesDefault, "h_v"))
    /\ UNCHANGED <<tables, nextId, connects, dbConn, cache, faults>>

\* hybrid_search called with a filter, a distance_threshold or both
StartHybridFilter(p, M, names, topks, filters, thresholds, rankings) ==
    /\ CanStart(pr[p], M)
    /\ \E name \in names, k \in topks, f \in filters, t \in thresholds,
          d \in rankings :
         LET r == [Begin(pr[p], "hybrid_search", name)
                      EXCEPT !.topk = k, !.auto = TRUE, !.fexpr = f.text,
                             !.parts = f.parts, !.thrArg = t, !.ranking = d]
         IN IF k < 0 THEN SetProc(p, OpReturn(r, "err_topk"))
            ELSE SetProc(p, CallVerify(r, VerifyRetriesDefault, "h_v"))
    /\ UNCHANGED <<tables, nextId, connects, dbConn, cache, faults>>

\* hybrid_search called again with the arguments of the caller's last call
\* and another top_k
StartHybridSame(p, M, topks) ==
    LET last == pr[p] IN
    /\ CanStart(last, M) /\ last.op = "hybrid_search"
    /\ \E k \in topks :
         LET r == [Begin(last, "hybrid_search", last.name)
                      EXCEPT !.topk = k, !.auto = last.auto, !.metricOk = last.metricOk,
                             !.fexpr = last.fexpr, !.parts = last.parts,
                             !.thrArg = last.thrArg, !.ranking = last.ranking]
         IN IF k < 0 THEN SetProc(p, OpReturn(r, "err_topk"))
            ELSE SetProc(p, CallVerify(r, VerifyRetriesDefault, "h_v"))
    /\ UNCHANGED <<tables, nextId, connects, dbConn, cache, faults>>

\* search = table.search(query); search = search.metric(mapped_metric); the
\* filter is rewritten, what is left of it goes to search.where, and the
\* threshold of the filter replaces the argument
HSearch(p, B) ==
    LET r == pr[p]
        u == SearchIssued(Use(r))
        x == RewriteFilter(r.fexpr)
    IN
    /\ r.pc = "h_search"
    /\ \E k \in HandleOutcomes(r.safe, r.h, B) :
         /\ faults' = Bump(k = "fault")
         /\ IF k = "ok" /\ ~x.err
            THEN SetProc(p, [u EXCEPT !.pc = "h_exec", !.where = x.where,
                                      !.thr = IF x.thr /= NoFloat THEN x.thr
                                              ELSE r.thrArg])
            ELSE SetProc(p, OpExcept(u, "err_hybrid"))
    /\ UNCHANGED <<tables, nextId, connects, dbConn, cache>>

\* search.limit(1).to_list() for top_k = 0, else search.limit(fetch_limit).to_list()
HExec(p, B) ==
    LET r == pr[p]
        u == Use(r)
    IN
    /\ r.pc = "h_exec"
    /\ \E k \in HandleOutcomes(r.safe, r.h, B), matched \in Matching(r) :
         LET fetch_limit == IF r.topk = 0 THEN 1
                            ELSE IF r.thr /= NoFloat THEN r.topk * 2 ELSE r.topk
             results == Fetch(r, matched, fetch_limit)
             final == IF r.thr /= NoFloat /\ results /= <<>>
                      THEN Truncate(Collect(results, <<>>, r.thr, r.topk), r.topk)
                      ELSE Truncate(results, r.topk)
             v == [u EXCEPT !.matched = matched, !.limit = fetch_limit,
                            !.raw = results]
         IN
         /\ faults' = Bump(k = "fault")
         /\ IF k = "ok"
            THEN IF r.topk = 0
                 THEN SetProc(p, OpReturn([v EXCEPT !.hits = Len(results)],
                                          IF Len(results) > 0 THEN "true" ELSE "false"))
                 ELSE SetProc(p, OpReturn([v EXCEPT !.hits = Len(final), !.out = final],
                                          "results"))
            ELSE SetProc(p, OpReturn(u, IF r.topk = 0 THEN "false_exc"
                                        ELSE "err_search_failed"))
    /\ UNCHANGED <<tables, nextId, connects, dbConn, cache>>

\* ------------------------------------------------------------------------
\* clear_table_cache
\* ------------------------------------------------------------------------

\* No eviction: the cache keeps the entry
keep_table_cache(c, table_name) == c

\* _table_cache.pop(table_name, None)
clear_table_cache(c, table_name) == [c EXCEPT ![table_name] = NoHandle]

\* ------------------------------------------------------------------------
\* delete_table
\* ------------------------------------------------------------------------

\* History: before holds the engine's tables as they were at the call
StartDelete(p, M, names) ==
    /\ CanStart(pr[p], M)
    /\ \E name \in names :
         SetProc(p, [Begin(pr[p], "delete_table", name)
                        EXCEPT !.pc = "d_list", !.before = tables])
    /\ UNCHANGED <<tables, nextId, connects, dbConn, cache, faults>>

\* db = get_connection(); initial_tables = set(db.table_names()); the raw name
\* is looked up first, then the sanitized one
DList(p, B) ==
    LET r == pr[p]
        u == Use(r)
    IN
    /\ r.pc = "d_list" /\ HasConn(r)
    /\ \E f \in FaultChoices(B) :
         /\ faults' = Bump(f)
         /\ IF f THEN SetProc(p, OpExcept(u, "err_delete"))
            ELSE IF r.name \in Listed
                 THEN SetProc(p, [u EXCEPT !.target = r.name, !.pc = "d_open"])
            ELSE IF r.safe \in Listed
                 THEN SetProc(p, [u EXCEPT !.target = r.safe, !.pc = "d_open"])
            ELSE SetProc(p, OpReturn(u, "err_missing"))
    /\ UNCHANGED <<tables, nextId, connects, dbConn, cache>>

\* table = db.open_table(table_to_delete); initial_row_count = len(table),
\* "unknown" (-1) when either fails
DOpen(p, B) ==
    LET r == pr[p]
        u == Use(r)
    IN
    /\ r.pc = "d_open"
    /\ \E f \in FaultChoices(B) :
         /\ faults' = Bump(f)
         /\ SetProc(p, [u EXCEPT !.pc = "d_drop",
                                 !.rowcount = IF ~f /\ Present(r.target)
                                              THEN tables[r.target].rows ELSE -1])
    /\ UNCHANGED <<tables, nextId, connects, dbConn, cache>>

\* What db.drop_table can do: what the engine does with the request, or a
\* failure: an exception, or a return with the table still there
DropOutcomes(B) == {"engine"} \cup (IF faults < B THEN {"raise", "lag"} ELSE {})

\* db.drop_table(table_to_delete), at line 102 and again in the fallback
DDrop(p, B) ==
    LET r == pr[p]
        u == [Use(r) EXCEPT !.drops = @ + 1]
        failed == IF r.pc = "d_drop" THEN OpExcept(u, "err_delete")
                  ELSE OpReturn(u, "err_still_exists")
        next == IF r.pc = "d_drop" THEN "d_clear1" ELSE "d_alt_check"
    IN
    /\ r.pc \in {"d_drop", "d_alt_drop"}
    /\ \E k \in DropOutcomes(B) :
         /\ faults' = Bump(k /= "engine")
         /\ CASE k = "engine" /\ Present(r.target) ->
                   /\ tables' = [tables EXCEPT ![r.target] = NoTable]
                   /\ SetProc(p, [u EXCEPT !.dropped = TRUE, !.pc = next])
              [] k = "engine" /\ ~Present(r.target) ->
                   /\ SetProc(p, failed)
                   /\ UNCHANGED tables
              [] k = "lag" ->
                   /\ SetProc(p, [u EXCEPT !.pc = next])
                   /\ UNCHANGED tables
              [] k = "raise" ->
                   /\ SetProc(p, failed)
                   /\ UNCHANGED tables
    /\ UNCHANGED <<nextId, connects, dbConn, cache>>

\* History: the names whose cached handle this caller's deletions removed
Evicted(r, n) == IF cache[n] /= NoHandle THEN r.evicted \cup {n} ELSE r.evicted

\* clear_table_cache(table_to_delete)
DClear1(p) ==
    LET r == pr[p] IN
    /\ r.pc = "d_clear1"
    /\ cache' = clear_table_cache(cache, r.target)
    /\ SetProc(p, [r EXCEPT !.pc = "d_clear2", !.evicted = Evicted(r, r.target)])
    /\ UNCHANGED <<tables, nextId, connects, dbConn, faults>>

\* clear_table_cache(actual_table_name)
DClear2(p) ==
    LET r == pr[p] IN
    /\ r.pc = "d_clear2"
    /\ cache' = clear_table_cache(cache, r.safe)
    /\ SetProc(p, [r EXCEPT !.pc = "d_check", !.att = 0,
                            !.evicted = Evicted(r, r.safe)])
    /\ UNCHANGED <<tables, nextId, connects, dbConn, faults>>

AssumedGone(r) == FALSE

\* table_to_delete in final_tables, for a listing taken after the drop
StillListed(r) == r.target \in Listed

\* History: one more listing taken after the drop, and what it showed
Checked(r) == [r EXCEPT !.checks = @ + 1, !.seen = r.target \in Listed]

\* for attempt in range(3): db = get_connection(); final_tables = set(db.table_names())
DCheck(p, B) ==
    LET r == pr[p]
        u == Use(r)
        v == Checked(u)
    IN
    /\ r.pc = "d_check" /\ HasConn(r)
    /\ \E f \in FaultChoices(B) :
         /\ faults' = Bump(f)
         /\ IF f THEN SetProc(p, OpExcept(u, "err_delete"))
            ELSE IF ~StillListed(r) THEN SetProc(p, OpReturn(v, "deleted"))
            ELSE IF r.att < DeleteChecks - 1 THEN SetProc(p, [v EXCEPT !.att = @ + 1])
            ELSE SetProc(p, [v EXCEPT !.pc = "d_alt_open"])
    /\ UNCHANGED <<tables, nextId, connects, dbConn, cache>>

\* fallback: table = db.open_table(table_to_delete)
DAltOpen(p, B) ==
    LET r == pr[p]
        u == Use(r)
    IN
    /\ r.pc = "d_alt_open"
    /\ \E f \in FaultChoices(B) :
         /\ faults' = Bump(f)
         /\ IF ~f /\ Present(r.target)
            THEN SetProc(p, [u EXCEPT !.h = HandleOf(r.target), !.pc = "d_alt_delete"])
            ELSE SetProc(p, OpReturn(u, "err_still_exists"))
    /\ UNCHANGED <<tables, nextId, connects, dbConn, cache>>

\* fallback: table.delete(where="true")
DAltDelete(p, B) ==
    LET r == pr[p]
        u == Use(r)
    IN
    /\ r.pc = "d_alt_delete"
    /\ \E k \in HandleOutcomes(r.target, r.h, B) :
         /\ faults' = Bump(k = "fault")
         /\ IF k = "ok"
            THEN /\ tables' = [tables EXCEPT ![r.target].rows = 0]
                 /\ SetProc(p, [u EXCEPT !.pc = "d_alt_drop"])
            ELSE /\ SetProc(p, OpReturn(u, "err_still_exists"))
                 /\ UNCHANGED tables
    /\ UNCHANGED <<nextId, connects, dbConn, cache>>

\* fallback: db = get_connection(); if table_to_delete not in db.table_names()
DAltCheck(p, B) ==
    LET r == pr[p]
        u == Use(r)
    IN
    /\ r.pc = "d_alt_check" /\ HasConn(r)
    /\ \E f \in FaultChoices(B) :
         /\ faults' = Bump(f)
         /\ IF f THEN SetProc(p, OpReturn(u, "err_still_exists"))
            ELSE IF ~StillListed(r) THEN SetProc(p, OpReturn(Checked(u), "deleted_alt"))
            ELSE SetProc(p, OpReturn(Checked(u), "err_still_exists"))
    /\ UNCHANGED <<tables, nextId, connects, dbConn, cache>>

\* ------------------------------------------------------------------------
\* ingest_docs (with documents that pass validation)
\* ------------------------------------------------------------------------

\* if not docs: an empty string, an empty list
NoDocs(d) == IF d.single THEN d.items[1].s = <<>> ELSE d.items = <<>>

\* str(doc) for an entry that is not a string
DocToStr(e) == IF e.t = "str" THEN e.s ELSE NatToStr(e.n)

\* The validation loop: None and blank entries are skipped, the others are
\* converted to strings and stripped
KeepAll(items) == [i \in DOMAIN items |-> StrStrip(DocToStr(items[i]))]

RECURSIVE validated_docs(_)
validated_docs(items) ==
    IF items = <<>> THEN <<>>
    ELSE LET doc == Head(items) IN
         IF doc.t = "none" \/ StrStrip(DocToStr(doc)) = <<>>
         THEN validated_docs(Tail(items))
         ELSE <<StrStrip(DocToStr(doc))>> \o validated_docs(Tail(items))

\* ingest_docs(table_name, docs, auto_create_table)
StartIngestDocs(p, M, names, autos, inputs) ==
    /\ CanStart(pr[p], M)
    /\ \E name \in names, a \in autos, d \in inputs :
         LET r == [Begin(pr[p], "ingest_docs", name)
                      EXCEPT !.auto = a, !.docsIn = d]
         IN IF NoDocs(d) THEN SetProc(p, OpReturn(r, "err_no_docs"))
            ELSE IF validated_docs(d.items) = <<>>
                 THEN SetProc(p, OpReturn(r, "err_no_valid"))
            ELSE SetProc(p, [r EXCEPT !.docs = validated_docs(d.items),
                                      !.pc = "i_connect"])
    /\ UNCHANGED <<tables, nextId, connects, dbConn, cache, faults>>

\* ingest_docs with one document
StartIngest(p, M, names, autos) == StartIngestDocs(p, M, names, autos, {OneDocument})

\* db = lancedb.connect(LANCEDB_URI)
IConnect(p, B) ==
    LET r == pr[p] IN
    /\ r.pc = "i_connect"
    /\ \E f \in FaultChoices(B) :
         /\ faults' = Bump(f)
         /\ IF f
            THEN /\ SetProc(p, OpExcept(r, "err_ingest"))
                 /\ UNCHANGED connects
            ELSE /\ connects' = connects + 1
                 /\ SetProc(p, [r EXCEPT !.db = connects + 1, !.pc = "i_list"])
    /\ UNCHANGED <<tables, nextId, dbConn, cache>>

\* table_names = db.table_names(); the raw name is looked up first, then the
\* sanitized one
IList(p, B) ==
    LET r == pr[p]
        u == [r EXCEPT !.calls = @ + 1]
    IN
    /\ r.pc = "i_list"
    /\ \E f \in FaultChoices(B) :
         /\ faults' = Bump(f)
         /\ IF f THEN SetProc(p, OpExcept(u, "err_ingest"))
            ELSE IF r.name \in Listed
                 THEN SetProc(p, [u EXCEPT !.target = r.name, !.pc = "i_open"])
            ELSE IF r.safe \in Listed
                 THEN SetProc(p, [u EXCEPT !.target = r.safe, !.pc = "i_open"])
            ELSE IF ~r.auto THEN SetProc(p, OpReturn(u, "err_missing"))
            ELSE SetProc(p, [u EXCEPT !.pc = "i_embed"])
    /\ UNCHANGED <<tables, nextId, connects, dbConn, cache>>

\* No check: the table's width is never compared
DimsUnchecked(table_dims) == FALSE

\* if table_dims != model_dims:
DimsMismatch(table_dims) == table_dims /= ModelDims

\* table = db.open_table(table_to_use); schema = table.schema; the width of
\* the fixed_size_list field against model.ndims()
IOpen(p, B) ==
    LET r == pr[p]
        u == [r EXCEPT !.calls = @ + 1]
    IN
    /\ r.pc = "i_open"
    /\ \E f \in FaultChoices(B) :
         /\ faults' = Bump(f)
         /\ IF f \/ ~Present(r.target) THEN SetProc(p, OpExcept(u, "err_ingest"))
            ELSE IF DimsMismatch(tables[r.target].w)
                 THEN SetProc(p, OpReturn([u EXCEPT !.h = HandleOf(r.target)], "err_dims"))
            ELSE SetProc(p, [u EXCEPT !.h = HandleOf(r.target), !.pc = "i_embed"])
    /\ UNCHANGED <<tables, nextId, connects, dbConn, cache>>

\* embeddings = get_embeddings(docs); for a missing table, then
\* create_table_with_retry(actual_table_name, Schema)
IEmbed(p, B) ==
    LET r == pr[p]
        u == [r EXCEPT !.emb = @ + 1]
    IN
    /\ r.pc = "i_embed"
    /\ \E f \in FaultChoices(B) :
         /\ faults' = Bump(f)
         /\ IF f THEN SetProc(p, OpExcept(r, "err_ingest"))
            ELSE IF r.target = <<>>
                 THEN SetProc(p, CallCwr([u EXCEPT !.target = r.safe],
                                         CreateRetriesDefault, ModelDims, "i_cwr"))
            ELSE SetProc(p, [u EXCEPT !.pc = "i_add"])
    /\ UNCHANGED <<tables, nextId, connects, dbConn, cache>>

\* table.add(table_data)
IAdd(p, B) ==
    LET r == pr[p]
        u == [r EXCEPT !.calls = @ + 1]
    IN
    /\ r.pc = "i_add"
    /\ \E k \in HandleOutcomes(r.target, r.h, B) :
         /\ faults' = Bump(k = "fault")
         /\ IF k = "ok"
            THEN /\ tables' = [tables EXCEPT ![r.target].rows = @ + Len(r.docs)]
                 /\ SetProc(p, OpReturn([u EXCEPT !.added = @ + 1,
                                                  !.rowsAdded = Len(r.docs),
                                                  !.count = Len(r.docs)],
                                        "ok_added"))
            ELSE /\ SetProc(p, OpExcept(u, "err_ingest"))
                 /\ UNCHANGED tables
    /\ UNCHANGED <<nextId, connects, dbConn, cache>>

\* ------------------------------------------------------------------------
\* ingest_docs: the rows built for an existing table
\* ------------------------------------------------------------------------

\* sub in s
Contains(s, sub) ==
    \E i \in 1..(Len(s) - Len(sub) + 1) : SubSeq(s, i, i + Len(sub) - 1) = sub

\* s.startswith(pre)
StartsWith(s, pre) == Len(s) >= Len(pre) /\ SubSeq(s, 1, Len(pre)) = pre

TypeFixedSizeList == <<"f", "i", "x", "e", "d", "_", "s", "i", "z", "e", "_", "l", "i", "s", "t">>
TypeInt == <<"i", "n", "t">>
TypeDouble == <<"d", "o", "u", "b", "l", "e">>
TypeFloat == <<"f", "l", "o", "a", "t">>
TypeBool == <<"b", "o", "o", "l">>
TypeString == <<"s", "t", "r", "i", "n", "g">>
TypeList == <<"l", "i", "s", "t">>

\* A field the row holds no value for
NoValue == "absent"

\* The default of a field that has no value yet, by the text of its type
DefaultFor(field_type_str) ==
    IF Contains(field_type_str, TypeInt) THEN "0"
    ELSE IF Contains(field_type_str, TypeDouble) \/ Contains(field_type_str, TypeFloat)
         THEN "0.0"
    ELSE IF Contains(field_type_str, TypeBool) THEN "False"
    ELSE IF Contains(field_type_str, TypeString) THEN "''"
    ELSE IF Contains(field_type_str, TypeList)
            /\ ~Contains(field_type_str, TypeFixedSizeList) THEN "[]"
    ELSE "None"

\* The first field of the schema whose type passes the test (0: none)
FirstField(schema, Test(_)) ==
    LET c == {i \in DOMAIN schema : Test(schema[i].type)}
    IN  IF c = {} THEN 0 ELSE CHOOSE i \in c : \A j \in c : i <= j

\* row_data for one document, by position of the schema: the document in
\* "doc" (or the first string field, or the first field), the embedding in
\* the vector field, set after the document, and a default for every other
\* field that is not a fixed-size list
RowData(schema) ==
    LET IsVector(t) == Contains(StrLower(t), TypeFixedSizeList)
        IsText(t) == StartsWith(t, TypeString)
        names == {schema[i].name : i \in DOMAIN schema}
        vec == FirstField(schema, IsVector)
        txt == FirstField(schema, IsText)
        docAt == IF "doc" \in names
                 THEN CHOOSE i \in DOMAIN schema : schema[i].name = "doc"
                 ELSE IF txt /= 0 THEN txt
                 ELSE IF schema /= <<>> THEN 1 ELSE 0
    IN  [i \in DOMAIN schema |->
            IF i = vec THEN "embedding"
            ELSE IF i = docAt THEN "document"
            ELSE IF StartsWith(StrLower(schema[i].type), TypeFixedSizeList) THEN NoValue
            ELSE DefaultFor(StrLower(schema[i].type))]

\* ingest_docs building a row for a table of the given schema
StartRow(p, schemas) ==
    /\ pr[p].pc = "idle"
    /\ \E s \in schemas :
         SetProc(p, [InitProc EXCEPT !.op = "ingest_docs", !.schema = s, !.pc = "i_row"])
    /\ UNCHANGED <<tables, nextId, connects, dbConn, cache, faults>>

\* for i, doc in enumerate(docs): row_data = {...}; table_data.append(row_data)
IRow(p) ==
    LET r == pr[p] IN
    /\ r.pc = "i_row"
    /\ SetProc(p, [r EXCEPT !.row = RowData(r.schema), !.pc = "done"])
    /\ UNCHANGED <<tables, nextId, connects, dbConn, cache, faults>>

\* ------------------------------------------------------------------------
\* update_documents, delete_documents
\* ------------------------------------------------------------------------

AnyFilter(f) == FALSE

\* not filter_expr or not filter_expr.strip()
EmptyFilter(f) == StrStrip(f) = <<>>

\* How many of n rows a where-clause selects: all of them for a tautology, any
\* number of them otherwise
Tautologies == {<<"t", "r", "u", "e">>, <<"1", "=", "1">>, <<"1", " ", "=", " ", "1">>}
MatchCounts(f, n) == IF StrLower(StrStrip(f)) \in Tautologies THEN {n} ELSE 0..n

\* update_documents(table_name, filter_expr, updates): upd is the field the
\* updates dict sets ("" for an empty dict)
StartUpdate(p, M, names, filters, upds) ==
    /\ CanStart(pr[p], M)
    /\ \E name \in names, f \in filters, k \in upds :
         LET r == [Begin(pr[p], "update_documents", name) EXCEPT !.filter = f, !.upd = k]
         IN IF EmptyFilter(f) THEN SetProc(p, OpReturn(r, "err_filter_empty"))
            ELSE IF k = "" THEN SetProc(p, OpReturn(r, "err_updates_empty"))
            ELSE SetProc(p, [r EXCEPT !.pc = "u_connect"])
    /\ UNCHANGED <<tables, nextId, connects, dbConn, cache, faults>>

\* db = lancedb.connect(LANCEDB_URI)
UConnect(p, B) ==
    LET r == pr[p] IN
    /\ r.pc = "u_connect"
    /\ \E f \in FaultChoices(B) :
         /\ faults' = Bump(f)
         /\ IF f
            THEN /\ SetProc(p, OpExcept(r, "err_update"))
                 /\ UNCHANGED connects
            ELSE /\ connects' = connects + 1
                 /\ SetProc(p, [r EXCEPT !.db = connects + 1, !.pc = "u_list"])
    /\ UNCHANGED <<tables, nextId, dbConn, cache>>

\* table_names = db.table_names(); the raw name, then the sanitized one
UList(p, B) ==
    LET r == pr[p]
        u == [r EXCEPT !.calls = @ + 1]
    IN
    /\ r.pc = "u_list"
    /\ \E f \in FaultChoices(B) :
         /\ faults' = Bump(f)
         /\ IF f THEN SetProc(p, OpExcept(u, "err_update"))
            ELSE IF r.name \in Listed
                 THEN SetProc(p, [u EXCEPT !.target = r.name, !.pc = "u_open"])
            ELSE IF r.safe \in Listed
                 THEN SetProc(p, [u EXCEPT !.target = r.safe, !.pc = "u_open"])
            ELSE SetProc(p, OpReturn(u, "err_missing"))
    /\ UNCHANGED <<tables, nextId, connects, dbConn, cache>>

\* table = db.open_table(table_to_use)
UOpen(p, B) ==
    LET r == pr[p]
        u == [r EXCEPT !.calls = @ + 1]
    IN
    /\ r.pc = "u_open"
    /\ \E f \in FaultChoices(B) :
         /\ faults' = Bump(f)
         /\ IF f \/ ~Present(r.target) THEN SetProc(p, OpExcept(u, "err_update"))
            ELSE SetProc(p, [u EXCEPT !.h = HandleOf(r.target), !.pc = "u_count"])
    /\ UNCHANGED <<tables, nextId, connects, dbConn, cache>>

\* row_count = table.count_rows(): an empty table is reported; a failure of
\* the count is passed over
UCount(p, B) ==
    LET r == pr[p]
        u == [r EXCEPT !.calls = @ + 1]
    IN
    /\ r.pc = "u_count"
    /\ \E k \in HandleOutcomes(r.target, r.h, B) :
         /\ faults' = Bump(k = "fault")
         /\ IF k = "ok" /\ tables[r.target].rows = 0
            THEN SetProc(p, OpReturn([u EXCEPT !.probe = "zero"], "warn_empty"))
            ELSE SetProc(p, [u EXCEPT !.probe = IF k = "ok" THEN "rows" ELSE "failed",
                                      !.pc = "u_update"])
    /\ UNCHANGED <<tables, nextId, connects, dbConn, cache>>

\* What the engine's update does to a table: of the selected rows, i had a
\* vector matching their document; writing one of the two fields alone leaves
\* those i rows with a vector that is not the embedding of their document
Updated(t, k, i) ==
    IF k \in {"doc", "vector"} THEN [t EXCEPT !.torn = @ + i] ELSE t

\* table.update(where=filter_expr, values=updates)
UUpdate(p, B) ==
    LET r == pr[p]
        u == [r EXCEPT !.calls = @ + 1, !.updates = @ + 1]
        t == tables[r.target]
    IN
    /\ r.pc = "u_update"
    /\ \E k \in HandleOutcomes(r.target, r.h, B) :
         /\ faults' = Bump(k = "fault")
         /\ IF k = "ok"
            THEN /\ \E m \in MatchCounts(r.filter, t.rows) :
                    \E i \in 0..m :
                       /\ i <= t.rows - t.torn /\ m - i <= t.torn
                       /\ tables' = [tables EXCEPT ![r.target] = Updated(t, r.upd, i)]
                 /\ SetProc(p, OpReturn(u, "ok_updated"))
            ELSE /\ SetProc(p, OpExcept(u, "err_update"))
                 /\ UNCHANGED tables
    /\ UNCHANGED <<nextId, connects, dbConn, cache>>

\* No filter is refused
NoDangerousFilter(f) == FALSE

\* filter_expr.lower().strip() in ["true", "1=1", "1 = 1"]
DangerousFilter(f) ==
    StrStrip(StrLower(f)) \in {<<"t", "r", "u", "e">>, <<"1", "=", "1">>,
                              <<"1", " ", "=", " ", "1">>}

\* delete_documents(table_name, filter_expr)
StartDeleteDocs(p, M, names, filters) ==
    /\ CanStart(pr[p], M)
    /\ \E name \in names, f \in filters :
         LET r == [Begin(pr[p], "delete_documents", name) EXCEPT !.filter = f]
         IN IF EmptyFilter(f) THEN SetProc(p, OpReturn(r, "err_filter_empty"))
            ELSE IF DangerousFilter(f) THEN SetProc(p, OpReturn(r, "warn_delete_all"))
            ELSE SetProc(p, [r EXCEPT !.pc = "dd_connect"])
    /\ UNCHANGED <<tables, nextId, connects, dbConn, cache, faults>>

\* db = lancedb.connect(LANCEDB_URI)
DdConnect(p, B) ==
    LET r == pr[p] IN
    /\ r.pc = "dd_connect"
    /\ \E f \in FaultChoices(B) :
         /\ faults' = Bump(f)
         /\ IF f
            THEN /\ SetProc(p, OpExcept(r, "err_delete_docs"))
                 /\ UNCHANGED connects
            ELSE /\ connects' = connects + 1
                 /\ SetProc(p, [r EXCEPT !.db = connects + 1, !.pc = "dd_list"])
    /\ UNCHANGED <<tables, nextId, dbConn, cache>>

\* table_names = db.table_names(); the raw name, then the sanitized one
DdList(p, B) ==
    LET r == pr[p]
        u == [r EXCEPT !.calls = @ + 1]
    IN
    /\ r.pc = "dd_list"
    /\ \E f \in FaultChoices(B) :
         /\ faults' = Bump(f)
         /\ IF f THEN SetProc(p, OpExcept(u, "err_delete_docs"))
            ELSE IF r.name \in Listed
                 THEN SetProc(p, [u EXCEPT !.target = r.name, !.pc = "dd_open"])
            ELSE IF r.safe \in Listed
                 THEN SetProc(p, [u EXCEPT !.target = r.safe, !.pc = "dd_open"])
            ELSE SetProc(p, OpReturn(u, "err_missing"))
    /\ UNCHANGED <<tables, nextId, connects, dbConn, cache>>

\* table = db.open_table(table_to_use)
DdOpen(p, B) ==
    LET r == pr[p]
        u == [r EXCEPT !.calls = @ + 1]
    IN
    /\ r.pc = "dd_open"
    /\ \E f \in FaultChoices(B) :
         /\ faults' = Bump(f)
         /\ IF f \/ ~Present(r.target) THEN SetProc(p, OpExcept(u, "err_delete_docs"))
            ELSE SetProc(p, [u EXCEPT !.h = HandleOf(r.target), !.pc = "dd_count"])
    /\ UNCHANGED <<tables, nextId, connects, dbConn, cache>>

\* initial_count = table.count_rows(), "unknown" (-1) when the count fails
DdCount(p, B) ==
    LET r == pr[p]
        u == [r EXCEPT !.calls = @ + 1]
    IN
    /\ r.pc = "dd_count"
    /\ \E k \in HandleOutcomes(r.target, r.h, B) :
         /\ faults' = Bump(k = "fault")
         /\ SetProc(p, [u EXCEPT !.rowcount = IF k = "ok" THEN tables[r.target].rows
                                              ELSE -1,
                                 !.pc = "dd_delete"])
    /\ UNCHANGED <<tables, nextId, connects, dbConn, cache>>

\* table.delete(where=filter_expr): m rows go, i of them rows whose vector
\* matched their document
DdDelete(p, B) ==
    LET r == pr[p]
        u == [r EXCEPT !.calls = @ + 1]
        t == tables[r.target]
    IN
    /\ r.pc = "dd_delete"
    /\ \E k \in HandleOutcomes(r.target, r.h, B) :
         /\ faults' = Bump(k = "fault")
         /\ IF k = "ok"
            THEN \E m \in MatchCounts(r.filter, t.rows) :
                 \E i \in 0..m :
                    /\ i <= t.rows - t.torn /\ m - i <= t.torn
                    /\ tables' = [tables EXCEPT ![r.target].rows = @ - m,
                                                ![r.target].torn = @ - (m - i)]
                    /\ SetProc(p, [u EXCEPT !.removed = m, !.pc = "dd_recount"])
            ELSE /\ SetProc(p, OpExcept(u, "err_delete_docs"))
                 /\ UNCHANGED tables
    /\ UNCHANGED <<nextId, connects, dbConn, cache>>

\* final_count = table.count_rows(): the message carries the number of deleted
\* rows when both counts succeeded ("unknown" when the first one failed)
DdRecount(p, B) ==
    LET r == pr[p]
        u == [r EXCEPT !.calls = @ + 1]
    IN
    /\ r.pc = "dd_recount"
    /\ \E k \in HandleOutcomes(r.target, r.h, B) :
         /\ faults' = Bump(k = "fault")
         /\ SetProc(p, OpReturn(u, IF k = "ok" THEN "ok_deleted_n" ELSE "ok_deleted"))
    /\ UNCHANGED <<tables, nextId, connects, dbConn, cache>>

\* ------------------------------------------------------------------------
\* list_tables, table_count, table_details, table_stats
\* ------------------------------------------------------------------------

\* list_tables(): table_names = get_all_tables()
StartListTables(p, M) ==
    /\ CanStart(pr[p], M)
    /\ SetProc(p, [Begin(pr[p], "list_tables", <<>>) EXCEPT !.pc = "gat"])
    /\ UNCHANGED <<tables, nextId, connects, dbConn, cache, faults>>

\* table_count(): table_names = get_all_tables(); count = len(table_names)
StartTableCount(p, M) ==
    /\ CanStart(pr[p], M)
    /\ SetProc(p, [Begin(pr[p], "table_count", <<>>) EXCEPT !.pc = "gat"])
    /\ UNCHANGED <<tables, nextId, connects, dbConn, cache, faults>>

\* get_all_tables(): db = get_connection(); db.table_names(limit=1000);
\* except Exception: return []
GatList(p, B) ==
    LET r == pr[p]
        u == Use(r)
    IN
    /\ r.pc = "gat" /\ HasConn(r)
    /\ \E f \in FaultChoices(B) :
         /\ faults' = Bump(f)
         /\ SetProc(p, AfterGat([u EXCEPT !.enumFailed = f], IF f THEN {} ELSE Listed))
    /\ UNCHANGED <<tables, nextId, connects, dbConn, cache>>

\* db = get_connection(); if not table_names: return {"tables": [], "count": 0};
\* for each name db.open_table and table.count_rows(), a failure of either
\* recorded in the entry of that table
LtInfo(p, B) ==
    LET r == pr[p]
        u == Use(r)
    IN
    /\ r.pc = "lt_info" /\ HasConn(r)
    /\ IF r.vlist = {}
       THEN /\ SetProc(p, OpReturn([r EXCEPT !.gc = "no", !.db = ConnOf(r), !.count = 0],
                                    "tables_none"))
            /\ UNCHANGED faults
       ELSE \E f \in FaultChoices(B) :
              /\ faults' = Bump(f)
              /\ SetProc(p, OpReturn([u EXCEPT !.entries = r.vlist,
                                               !.count = Cardinality(r.vlist)],
                                     IF f THEN "tables_partial" ELSE "tables_dict"))
    /\ UNCHANGED <<tables, nextId, connects, dbConn, cache>>

\* table_details(table_name), table_stats(table_name):
\* if not verify_table_exists(safe_table_name): return f"Error: Table ..."
StartTableInfo(p, M, ops, names) ==
    /\ CanStart(pr[p], M)
    /\ \E op \in ops, name \in names :
         SetProc(p, CallVerify(Begin(pr[p], op, name), VerifyRetriesDefault, "ti_v"))
    /\ UNCHANGED <<tables, nextId, connects, dbConn, cache, faults>>

\* db = get_connection(); table = db.open_table(safe_table_name); the row
\* count (every failure of it passed over) and the schema go into the dict
TiOpen(p, B) ==
    LET r == pr[p]
        u == Use(r)
    IN
    /\ r.pc = "ti_open" /\ HasConn(r)
    /\ \E f \in FaultChoices(B) :
         /\ faults' = Bump(f)
         /\ IF ~f /\ Present(r.safe)
            THEN SetProc(p, OpReturn([u EXCEPT !.h = HandleOf(r.safe),
                                              !.count = tables[r.safe].rows],
                                     "info_dict"))
            ELSE SetProc(p, OpExcept(u, "err_info"))
    /\ UNCHANGED <<tables, nextId, connects, dbConn, cache>>

\* ------------------------------------------------------------------------
\* open_table_with_retry: one attempt
\* ------------------------------------------------------------------------

\* db = get_connection(); table = db.open_table(table_name)
OOpen(p, B) ==
    LET r == pr[p]
        u == [Use(r) EXCEPT !.opens = @ + 1]
    IN
    /\ r.pc = "o_open" /\ HasConn(r)
    /\ \E f \in FaultChoices(B) :
         /\ faults' = Bump(f)
         /\ IF ~f /\ Present(r.safe)
            THEN SetProc(p, [u EXCEPT !.h = HandleOf(r.safe), !.pc = "o_schema"])
            ELSE SetProc(p, OtrExcept(u, "open"))
    /\ UNCHANGED <<tables, nextId, connects, dbConn, cache>>

\* _ = table.schema; return table. What the read does on a handle whose table
\* was dropped since the open is not defined: it may answer or raise
OSchema(p, B) ==
    LET r == pr[p]
        u == Use(r)
    IN
    /\ r.pc = "o_schema"
    /\ \E f \in FaultChoices(B), gone \in {FALSE, ~Live(r.safe, r.h)} :
         /\ faults' = Bump(f)
         /\ IF ~f /\ ~gone
            THEN SetProc(p, OpReturn([u EXCEPT !.opened = r.opens], "table"))
            ELSE SetProc(p, OtrExcept([u EXCEPT !.h = NoHandle], "schema"))
    /\ UNCHANGED <<tables, nextId, connects, dbConn, cache>>

\* ------------------------------------------------------------------------
\* Specifications
\* ------------------------------------------------------------------------

RetryArgs == 0..CreateRetriesDefault

VerifySteps(p, B) == VOpen(p, B) \/ VList(p, B) \/ VVar(p, B)
ConnSteps(p, B) == GcCheck(p) \/ GcConnect(p, B) \/ GcReturn(p)
CwrSteps(p, B) == CConv(p, B) \/ COpenExist(p, B) \/ CCreate(p, B) \/ COpenConc(p, B)
GtcSteps(p, B) == GCheck(p) \/ GOpen(p, B) \/ GStore(p) \/ GRet(p)
QuerySteps(p, B) == QCount(p, B) \/ QSchema(p, B) \/ QSearch(p, B) \/ QExec(p, B)
HybridSteps(p, B) == HSearch(p, B) \/ HExec(p, B)
DeleteSteps(p, B) ==
    DList(p, B) \/ DOpen(p, B) \/ DDrop(p, B) \/ DClear1(p) \/ DClear2(p) \/ DCheck(p, B)
DeleteFallbackSteps(p, B) == DAltOpen(p, B) \/ DAltDelete(p, B) \/ DAltCheck(p, B)
IngestSteps(p, B) == IConnect(p, B) \/ IList(p, B) \/ IOpen(p, B) \/ IEmbed(p, B) \/ IAdd(p, B)

\* One caller creating tables against an engine whose calls may fail
InitCreate == InitWith(EngineStates({ModelDims}, {0}), {1})

NextCreate ==
    \/ StartCreateTable(1, MaxOps, RawNames, {ModelDims})
    \/ StartCwr(1, MaxOps, RawNames, RetryArgs)
    \/ ConnSteps(1, MaxFaults)
    \/ VerifySteps(1, MaxFaults)
    \/ CwrSteps(1, MaxFaults)
    \/ EnvCreate(TableNames, MaxFaults)

SpecCreate == InitCreate /\ [][NextCreate]_vars

\* One caller running public operations one after the other
InitSeq == InitWith(EngineStates({ModelDims, OtherDims}, {1}), {1})

NextSeq ==
    \/ StartCreateTable(1, MaxOps, RawNames, {ModelDims, OtherDims})
    \/ StartDelete(1, MaxOps, RawNames)
    \/ StartQuery(1, MaxOps, RawNames, {0, 1}, BOOLEAN)
    \/ StartHybrid(1, MaxOps, RawNames, {0, 1}, BOOLEAN, BOOLEAN)
    \/ StartIngest(1, MaxOps, RawNames, BOOLEAN)
    \/ ConnSteps(1, MaxFaults)
    \/ VerifySteps(1, MaxFaults)
    \/ CConv(1, MaxFaults) \/ COpenExist(1, MaxFaults) \/ CCreate(1, MaxFaults)
    \/ GtcSteps(1, MaxFaults)
    \/ QuerySteps(1, MaxFaults)
    \/ HybridSteps(1, MaxFaults)
    \/ DeleteSteps(1, MaxFaults)
    \/ DeleteFallbackSteps(1, MaxFaults)
    \/ IngestSteps(1, MaxFaults)

SpecSeq == InitSeq /\ [][NextSeq]_vars

\* One caller re-creating and re-reading tables, against a reliable engine
ReuseOps == 4

InitReuse == InitWith(EngineStates({ModelDims}, {1}), {1})

NextReuse ==
    \/ StartCreateTable(1, ReuseOps, RawNames, {ModelDims})
    \/ StartDelete(1, ReuseOps, RawNames)
    \/ StartQuery(1, ReuseOps, RawNames, {1}, BOOLEAN)
    \/ StartHybrid(1, ReuseOps, RawNames, {1}, BOOLEAN, {TRUE})
    \/ StartIngest(1, ReuseOps, RawNames, BOOLEAN)
    \/ ConnSteps(1, 0)
    \/ VerifySteps(1, 0)
    \/ CConv(1, 0) \/ COpenExist(1, 0) \/ CCreate(1, 0)
    \/ GtcSteps(1, 0)
    \/ QuerySteps(1, 0)
    \/ HybridSteps(1, 0)
    \/ DeleteSteps(1, 0)
    \/ IngestSteps(1, 0)

SpecReuse == InitReuse /\ [][NextReuse]_vars

\* One caller of get_table_cached between creations and deletions
CacheOps == 3

InitCache == InitWith(EngineStates({ModelDims}, {1}), {1})

NextCache ==
    \/ StartGtc(1, CacheOps, AllNames, BOOLEAN)
    \/ StartCreateTable(1, CacheOps, RawNames, {ModelDims})
    \/ StartDelete(1, CacheOps, RawNames)
    \/ ConnSteps(1, MaxFaults)
    \/ VerifySteps(1, MaxFaults)
    \/ CConv(1, MaxFaults) \/ COpenExist(1, MaxFaults) \/ CCreate(1, MaxFaults)
    \/ GtcSteps(1, MaxFaults)
    \/ DeleteSteps(1, MaxFaults)
    \/ DeleteFallbackSteps(1, MaxFaults)

SpecCache == InitCache /\ [][NextCache]_vars

\* Two callers, one operation each, against a reliable engine
RaceNames == {<<"A", "B">>, <<"a", "-", "b">>}

InitRace == InitWith(EngineStates({ModelDims}, {1}), Callers)

RaceSteps(p) ==
    \/ StartCreateTable(p, 1, RaceNames, {ModelDims})
    \/ StartDelete(p, 1, RaceNames)
    \/ StartQuery(p, 1, RaceNames, {1}, BOOLEAN)
    \/ StartHybrid(p, 1, RaceNames, {1}, BOOLEAN, {TRUE})
    \/ StartIngest(p, 1, RaceNames, BOOLEAN)
    \/ StartGetConn(p, 1)
    \/ GcCallRet(p)
    \/ ConnSteps(p, 0)
    \/ VerifySteps(p, 0)
    \/ CwrSteps(p, 0)
    \/ GtcSteps(p, 0)
    \/ QuerySteps(p, 0)
    \/ HybridSteps(p, 0)
    \/ DeleteSteps(p, 0)
    \/ DeleteFallbackSteps(p, 0)
    \/ IngestSteps(p, 0)

NextRace == \E p \in Callers : RaceSteps(p)

SpecRace == InitRace /\ [][NextRace]_vars

\* ingest_docs of one caller against create_table of another, reliable engine
InitIngestRace == InitWith(EngineStates({ModelDims}, {1}), Callers)

NextIngestRace ==
    \/ StartIngest(1, 1, RaceNames, BOOLEAN)
    \/ IngestSteps(1, 0)
    \/ StartCreateTable(2, 1, RaceNames, {ModelDims, OtherDims})
    \/ \E p \in Callers : ConnSteps(p, 0) \/ VerifySteps(p, 0) \/ CwrSteps(p, 0)

SpecIngestRace == InitIngestRace /\ [][NextIngestRace]_vars

\* One caller filling, updating and pruning tables
DocFilters ==
    {<<>>, <<" ">>, <<"t", "r", "u", "e">>, <<" ", "T", "r", "u", "E", "\t">>,
     <<"1", "=", "1">>, <<"1", " ", "=", " ", "1">>, <<"i", "d", "=", "1">>}
UpdateFields == {"", "doc", "vector", "category"}

DocSteps(p, B) ==
    \/ UConnect(p, B) \/ UList(p, B) \/ UOpen(p, B) \/ UCount(p, B) \/ UUpdate(p, B)
    \/ DdConnect(p, B) \/ DdList(p, B) \/ DdOpen(p, B) \/ DdCount(p, B)
    \/ DdDelete(p, B) \/ DdRecount(p, B)

InitDocs == InitWith(EngineStates({ModelDims}, {0, 2}), {1})

NextDocs ==
    \/ StartIngest(1, MaxOps, RawNames, BOOLEAN)
    \/ StartUpdate(1, MaxOps, RawNames, DocFilters, UpdateFields)
    \/ StartDeleteDocs(1, MaxOps, RawNames, DocFilters)
    \/ IngestSteps(1, MaxFaults)
    \/ DocSteps(1, MaxFaults)
    \/ ConnSteps(1, MaxFaults)
    \/ VerifySteps(1, MaxFaults)
    \/ CConv(1, MaxFaults) \/ COpenExist(1, MaxFaults) \/ CCreate(1, MaxFaults)

SpecDocs == InitDocs /\ [][NextDocs]_vars

\* One caller, one public operation, an engine that fails up to OpFaults times
OpFaults == 3
InfoOps == {"table_details", "table_stats"}
InfoSteps(p, B) == GatList(p, B) \/ LtInfo(p, B) \/ TiOpen(p, B)

InitOps == InitWith(EngineStates({ModelDims, OtherDims}, {0, 2}), {1})

NextOps ==
    \/ StartCreateTable(1, 1, RawNames, {ModelDims, OtherDims})
    \/ StartDelete(1, 1, RawNames)
    \/ StartListTables(1, 1)
    \/ StartTableCount(1, 1)
    \/ StartTableInfo(1, 1, InfoOps, RawNames)
    \/ StartIngest(1, 1, RawNames, BOOLEAN)
    \/ StartUpdate(1, 1, RawNames, DocFilters, UpdateFields)
    \/ StartDeleteDocs(1, 1, RawNames, DocFilters)
    \/ StartQuery(1, 1, RawNames, {-1, 0, 1}, BOOLEAN)
    \/ StartHybrid(1, 1, RawNames, {-1, 0, 1}, BOOLEAN, BOOLEAN)
    \/ ConnSteps(1, OpFaults)
    \/ VerifySteps(1, OpFaults)
    \/ CConv(1, OpFaults) \/ COpenExist(1, OpFaults) \/ CCreate(1, OpFaults)
    \/ GtcSteps(1, OpFaults)
    \/ QuerySteps(1, OpFaults)
    \/ HybridSteps(1, OpFaults)
    \/ DeleteSteps(1, OpFaults)
    \/ DeleteFallbackSteps(1, OpFaults)
    \/ IngestSteps(1, OpFaults)
    \/ DocSteps(1, OpFaults)
    \/ InfoSteps(1, OpFaults)

SpecOps == InitOps /\ [][NextOps]_vars

\* hybrid_search with filters and thresholds: one caller, a reliable engine.
\* A filter is a conjunction of up to MaxClauses clauses; each filter comes
\* with the clauses it was written from.
MaxClauses == 3

ScalarClauses ==
    { [kind |-> "scalar", text |-> <<"a", "=", "1">>, op |-> <<>>, val |-> NoFloat],
      [kind |-> "scalar", text |-> <<"b", "=", "2">>, op |-> <<>>, val |-> NoFloat] }

DistanceClauses ==
    { [kind |-> "distance", op |-> <<"<">>, val |-> [m |-> 5, e |-> 0],
       text |-> <<"_", "d", "i", "s", "t", "a", "n", "c", "e", " ", "<", " ", "5">>],
      [kind |-> "distance", op |-> <<"<", "=">>, val |-> [m |-> 5, e |-> 1],
       text |-> <<"d", "i", "s", "t", "a", "n", "c", "e", "<", "=", "0", ".", "5">>],
      [kind |-> "distance", op |-> <<"=">>, val |-> [m |-> 3, e |-> 0],
       text |-> <<"D", "i", "s", "t", "a", "n", "c", "e", " ", "=", " ", "3">>],
      [kind |-> "distance", op |-> <<">", "=">>, val |-> [m |-> 4, e |-> 0],
       text |-> <<"s", "c", "o", "r", "e", " ", ">", "=", " ", "4">>] }

AndWord == <<" ", "A", "N", "D", " ">>

RECURSIVE Conjunction(_)
Conjunction(texts) ==
    IF texts = <<>> THEN <<>>
    ELSE IF Len(texts) = 1 THEN texts[1]
    ELSE texts[1] \o AndWord \o Conjunction(Tail(texts))

ClauseLists ==
    UNION {[1..n -> ScalarClauses \cup DistanceClauses] : n \in 0..MaxClauses}

Filters ==
    {[text |-> Conjunction([i \in DOMAIN c |-> c[i].text]), parts |-> c] : c \in ClauseLists}

Thresholds == {NoFloat, [m |-> 5, e |-> 1]}

Rankings ==
    { <<Tenths(1), Tenths(4), Tenths(6), Tenths(7)>>,
      <<Tenths(6), Tenths(1), NoFloat, Tenths(5)>>,
      <<Tenths(50), Tenths(30), Tenths(4), Tenths(60)>> }

\* The filters of the runs that vary the table and the ranking
FewFilters == {f \in Filters : Len(f.parts) <= 1 /\ f.parts \notin [{1} -> ScalarClauses]}

FilterTable == <<"A", "b">>

InitHybridFilter ==
    \E rows \in {0, 3, 4} :
       InitWith({[n \in AllNames |->
                    IF n = FilterTable
                    THEN [id |-> 1, w |-> ModelDims, rows |-> rows, torn |-> 0]
                    ELSE NoTable]}, {1})

NextHybridFilter ==
    \/ StartHybridFilter(1, 1, {<<"a", "b">>}, {1}, Filters, Thresholds,
                         {<<Tenths(1), Tenths(4), Tenths(6), Tenths(7)>>})
    \/ StartHybridFilter(1, 1, {<<"a", "b">>}, {0, 1, 2}, FewFilters, Thresholds,
                         Rankings)
    \/ ConnSteps(1, 0)
    \/ VOpen(1, 0)
    \/ GtcSteps(1, 0)
    \/ HybridSteps(1, 0)

SpecHybridFilter == InitHybridFilter /\ [][NextHybridFilter]_vars

\* ingest_docs with every shape of docs: one string, or a list of up to
\* MaxDocs entries that are None, blank, padded, plain or a number
MaxDocs == 3

DocEntries ==
    {NoneDoc, StrDoc(<<>>), StrDoc(<<" ", "\t">>), StrDoc(<<"d">>),
     StrDoc(<<" ", "e", " ", "f", "\n">>), IntDoc(70)}

DocInputs ==
    {[single |-> TRUE, items |-> <<e>>] : e \in {e \in DocEntries : e.t = "str"}}
      \cup {[single |-> FALSE, items |-> d] :
              d \in UNION {[1..n -> DocEntries] : n \in 0..MaxDocs}}

IngestTable == <<"A", "b">>

InitIngestDocs ==
    \E t \in {NoTable, [id |-> 1, w |-> ModelDims, rows |-> 0, torn |-> 0],
              [id |-> 1, w |-> ModelDims, rows |-> 2, torn |-> 0]} :
       InitWith({[n \in AllNames |-> IF n = IngestTable THEN t ELSE NoTable]}, {1})

NextIngestDocs ==
    \/ StartIngestDocs(1, 1, {<<"a", "b">>}, BOOLEAN, DocInputs)
    \/ IngestSteps(1, MaxFaults)
    \/ ConnSteps(1, MaxFaults)
    \/ VerifySteps(1, MaxFaults)
    \/ CConv(1, MaxFaults) \/ CCreate(1, MaxFaults)

SpecIngestDocs == InitIngestDocs /\ [][NextIngestDocs]_vars

\* The workflow of the integration tests: list_tables, create_table(n),
\* ingest_docs(n, docs), table_details(n), query_table(q, n, top_k=1),
\* delete_table(n), list_tables, by one caller on a reliable engine
WorkflowOps == 7

WorkflowDocs ==
    {[single |-> FALSE, items |-> [i \in 1..k |-> StrDoc(<<"d">>)]] : k \in 1..MaxDocs}

InitWorkflow ==
    /\ tables \in EngineStates({ModelDims}, {0, 2})
    /\ nextId = 2
    /\ connects = 0
    /\ dbConn = 0
    /\ cache = [n \in AllNames |-> NoHandle]
    /\ faults = 0
    /\ pr = [p \in Callers |-> IF p = 1 THEN [InitProc EXCEPT !.track = TRUE]
                               ELSE [InitProc EXCEPT !.pc = "off"]]

NextWorkflow ==
    \/ pr[1].n \in {0, 6} /\ StartListTables(1, WorkflowOps)
    \/ pr[1].n = 1 /\ StartCreateTable(1, WorkflowOps, RawNames, {ModelDims})
    \/ pr[1].n = 2 /\ StartIngestDocs(1, WorkflowOps, {pr[1].name}, {TRUE}, WorkflowDocs)
    \/ pr[1].n = 3 /\ StartTableInfo(1, WorkflowOps, {"table_details"}, {pr[1].name})
    \/ pr[1].n = 4 /\ StartQuery(1, WorkflowOps, {pr[1].name}, {1}, {FALSE})
    \/ pr[1].n = 5 /\ StartDelete(1, WorkflowOps, {pr[1].name})
    \/ ConnSteps(1, 0)
    \/ VerifySteps(1, 0)
    \/ CConv(1, 0) \/ COpenExist(1, 0) \/ CCreate(1, 0)
    \/ GtcSteps(1, 0)
    \/ QuerySteps(1, 0)
    \/ DeleteSteps(1, 0)
    \/ IngestSteps(1, 0)
    \/ InfoSteps(1, 0)

SpecWorkflow == InitWorkflow /\ [][NextWorkflow]_vars

\* sanitize_table_name applied to a name and then to its own result, in one
\* process (one hash seed), for every name of up to MaxLen characters
MaxLen == 3
NameChars == {"a", "B", "1", "-", " "}
NameInputs == UNION {[1..n -> NameChars] : n \in 0..MaxLen}
Seeds == {HashSeed, 4242}

StartSanitize(p, names, seeds) ==
    /\ pr[p].pc = "idle"
    /\ \E x \in names, s \in seeds :
         SetProc(p, [InitProc EXCEPT !.op = "sanitize_table_name", !.name = x,
                                     !.seed = s, !.pc = "s_call"])
    /\ UNCHANGED <<tables, nextId, connects, dbConn, cache, faults>>

\* sanitize_table_name(table_name)
SCall(p) ==
    LET r == pr[p] IN
    /\ r.pc = "s_call"
    /\ SetProc(p, [r EXCEPT !.safe = SanitizeWithSeed(r.name, r.seed), !.pc = "s_again"])
    /\ UNCHANGED <<tables, nextId, connects, dbConn, cache, faults>>

\* sanitize_table_name(the name it returned)
SAgain(p) ==
    LET r == pr[p] IN
    /\ r.pc = "s_again"
    /\ SetProc(p, [r EXCEPT !.target = SanitizeWithSeed(r.safe, r.seed), !.pc = "done"])
    /\ UNCHANGED <<tables, nextId, connects, dbConn, cache, faults>>

InitSanitize == InitWith({[n \in AllNames |-> NoTable]}, {1})

NextSanitize == StartSanitize(1, NameInputs, Seeds) \/ SCall(1) \/ SAgain(1)

SpecSanitize == InitSanitize /\ [][NextSanitize]_vars

\* verify_table_exists called directly with every retry budget, against an
\* engine whose calls may fail, while another caller creates and drops tables
VerifyOps == 1
VerifyFaults == 2
VerifyArgs == 0..VerifyRetriesDefault

InitVerify == InitWith(EngineStates({ModelDims}, {1}), Callers)

NextVerify ==
    \/ StartVerify(1, VerifyOps, AllNames, VerifyArgs)
    \/ ConnSteps(1, VerifyFaults)
    \/ VerifySteps(1, VerifyFaults)
    \/ StartCreateTable(2, 1, RaceNames, {ModelDims})
    \/ StartDelete(2, 1, RaceNames)
    \/ ConnSteps(2, 0)
    \/ VerifySteps(2, 0)
    \/ CConv(2, 0) \/ COpenExist(2, 0) \/ CCreate(2, 0)
    \/ DeleteSteps(2, 0)

SpecVerify == InitVerify /\ [][NextVerify]_vars

\* One caller querying, filling and querying again, against a reliable engine
\* whose tables start empty or with one row
StaleOps == 3

InitStale == InitWith(EngineStates({ModelDims}, {0, 1}), {1})

NextStale ==
    \/ StartQuery(1, StaleOps, RawNames, {0, 2}, {FALSE})
    \/ StartIngest(1, StaleOps, RawNames, {FALSE})
    \/ ConnSteps(1, 0)
    \/ VerifySteps(1, 0)
    \/ GtcSteps(1, 0)
    \/ QuerySteps(1, 0)
    \/ IngestSteps(1, 0)

SpecStale == InitStale /\ [][NextStale]_vars

\* The existence probe of hybrid_search (top_k = 0) followed by the same call
\* with top_k = 1: one caller, a reliable engine, filters without a scalar clause
ProbeOps == 2

\* Nearest first: a table whose rows are all near the query, and one whose
\* rows are all far from it
ProbeRankings == {NearestFirst, <<Tenths(6), Tenths(7), Tenths(8), Tenths(9)>>}

InitProbe ==
    /\ \E rows \in {0, 3} :
          tables = [n \in AllNames |->
                      IF n = FilterTable
                      THEN [id |-> 1, w |-> ModelDims, rows |-> rows, torn |-> 0]
                      ELSE NoTable]
    /\ nextId = 2
    /\ connects = 0
    /\ dbConn = 0
    /\ cache = [n \in AllNames |-> NoHandle]
    /\ faults = 0
    /\ pr = [p \in Callers |-> IF p = 1 THEN [InitProc EXCEPT !.track = TRUE]
                               ELSE [InitProc EXCEPT !.pc = "off"]]

NextProbe ==
    \/ /\ pr[1].n = 0
       /\ StartHybridFilter(1, ProbeOps, {<<"a", "b">>}, {0}, FewFilters, Thresholds,
                            ProbeRankings)
    \/ pr[1].n = 1 /\ StartHybridSame(1, ProbeOps, {1})
    \/ ConnSteps(1, 0)
    \/ VOpen(1, 0)
    \/ GtcSteps(1, 0)
    \/ HybridSteps(1, 0)

SpecProbe == InitProbe /\ [][NextProbe]_vars

\* One caller running the operations that take a table name, one after the
\* other, from an empty engine whose calls may fail
NamesOps == 3

InitNames == InitWith({[n \in AllNames |-> NoTable]}, {1})

NextNames ==
    \/ StartCreateTable(1, NamesOps, RawNames, {ModelDims})
    \/ StartDelete(1, NamesOps, RawNames)
    \/ StartTableInfo(1, NamesOps, InfoOps, RawNames)
    \/ StartIngest(1, NamesOps, RawNames, BOOLEAN)
    \/ StartUpdate(1, NamesOps, RawNames, {<<"i", "d", "=", "1">>}, {"doc"})
    \/ StartDeleteDocs(1, NamesOps, RawNames, {<<"i", "d", "=", "1">>})
    \/ StartQuery(1, NamesOps, RawNames, {1}, BOOLEAN)
    \/ StartHybrid(1, NamesOps, RawNames, {1}, BOOLEAN, {TRUE})
    \/ ConnSteps(1, MaxFaults)
    \/ VerifySteps(1, MaxFaults)
    \/ CConv(1, MaxFaults) \/ COpenExist(1, MaxFaults) \/ CCreate(1, MaxFaults)
    \/ GtcSteps(1, MaxFaults)
    \/ QuerySteps(1, MaxFaults)
    \/ HybridSteps(1, MaxFaults)
    \/ DeleteSteps(1, MaxFaults)
    \/ IngestSteps(1, MaxFaults)
    \/ DocSteps(1, MaxFaults)
    \/ TiOpen(1, MaxFaults)

SpecNames == InitNames /\ [][NextNames]_vars

\* The row ingest_docs builds for an existing table: a schema is the "doc"
\* field, the vector field and up to MaxFields further fields, each with the
\* text of its type and the kind of type it is
MaxFields == 2

FieldTypes ==
    { [text |-> <<"s", "t", "r", "i", "n", "g">>, kind |-> "string"],
      [text |-> <<"l", "a", "r", "g", "e", "_", "s", "t", "r", "i", "n", "g">>, kind |-> "string"],
      [text |-> <<"i", "n", "t", "6", "4">>, kind |-> "int"],
      [text |-> <<"u", "i", "n", "t", "8">>, kind |-> "int"],
      [text |-> <<"d", "o", "u", "b", "l", "e">>, kind |-> "float"],
      [text |-> <<"f", "l", "o", "a", "t">>, kind |-> "float"],
      [text |-> <<"b", "o", "o", "l">>, kind |-> "bool"],
      [text |-> <<"l", "i", "s", "t", "<", "i", "t", "e", "m", ":", " ", "s", "t", "r", "i", "n", "g", ">">>, kind |-> "list"],
      [text |-> <<"l", "i", "s", "t", "<", "i", "t", "e", "m", ":", " ", "i", "n", "t", "6", "4", ">">>, kind |-> "list"],
      [text |-> <<"l", "i", "s", "t", "<", "i", "t", "e", "m", ":", " ", "b", "i", "n", "a", "r", "y", ">">>, kind |-> "list"],
      [text |-> <<"t", "i", "m", "e", "s", "t", "a", "m", "p", "[", "u", "s", "]">>, kind |-> "other"],
      [text |-> <<"b", "i", "n", "a", "r", "y">>, kind |-> "other"] }

DocField == [name |-> "doc", type |-> <<"s", "t", "r", "i", "n", "g">>, kind |-> "doc"]
VectorField ==
    [name |-> "vector", kind |-> "vector",
     type |-> <<"f", "i", "x", "e", "d", "_", "s", "i", "z", "e", "_", "l", "i", "s", "t", "<", "i", "t", "e", "m", ":", " ", "f", "l", "o", "a", "t", ">", "[", "3", "8", "4", "]">>]

FieldNames == <<"f1", "f2", "f3">>

Schemas ==
    UNION {{<<DocField, VectorField>>
              \o [i \in 1..n |-> [name |-> FieldNames[i], type |-> f[i].text,
                                  kind |-> f[i].kind]] : f \in [1..n -> FieldTypes]} :
           n \in 0..MaxFields}

InitRows == InitWith({[n \in AllNames |-> NoTable]}, {1})

NextRows == StartRow(1, Schemas) \/ IRow(1)

SpecRows == InitRows /\ [][NextRows]_vars

\* open_table_with_retry called with every retry budget up to its default,
\* against an engine whose calls may fail
OpenRetriesDefault == 3
OpenOps == 2
OpenFaults == 3
OpenArgs == 0..OpenRetriesDefault

InitOpenRetry == InitWith(EngineStates({ModelDims}, {0}), {1})

NextOpenRetry ==
    \/ StartOpenRetry(1, OpenOps, AllNames, OpenArgs)
    \/ ConnSteps(1, OpenFaults)
    \/ OOpen(1, OpenFaults)
    \/ OSchema(1, OpenFaults)

SpecOpenRetry == InitOpenRetry /\ [][NextOpenRetry]_vars

\* ------------------------------------------------------------------------
\* Properties
\* ------------------------------------------------------------------------

AtRest(r) == r.pc \in {"idle", "done"}
Done(r) == r.pc = "done"

CreatedMsgs == {"created", "created_as"}
SuccessMsgs == CreatedMsgs \cup {"exists", "concurrent", "concurrent_as"}
SuccessResults ==
    SuccessMsgs \cup {"empty", "false", "false_exc", "true", "results", "ok_added"}

\* The operation creates the table it does not find
Creator(r) ==
    \/ r.op \in {"create_table", "create_table_with_retry"}
    \/ r.op \in {"query_table", "hybrid_search", "ingest_docs"} /\ r.auto

\* A case variant of name n, other than n itself, is a table of the engine
VariantPresent(n) == \E j \in 1..4 : name_variants(n)[j] /= n /\ Present(name_variants(n)[j])

\* Attempts of the retry loop begun when create_table_with_retry returned
AttemptsUsed(r) == IF r.cmsg = "failed_after" THEN r.att ELSE r.att + 1

\* C1: with a reliable engine and the table absent before the first call, two
\* calls of create_table with the same name in a row both succeed, the second
\* one reports "already exists", the engine's create is invoked once over the
\* two calls, and the table of the sanitized name is there.
C1_CreateTwice ==
    LET r == pr[1] IN
    (/\ Done(r) /\ r.op = "create_table"
     /\ r.last.op = "create_table" /\ r.last.name = r.name
     /\ r.last.absent0 /\ faults = 0)
    => /\ r.last.res \in CreatedMsgs
       /\ r.res = "exists"
       /\ r.last.nCreate + r.nCreate = 1
       /\ Present(r.safe)

\* C2: when create_table_with_retry returns success, a verify_table_exists
\* on the sanitized name has returned true during the call and the handle is
\* not None; when it returns failure, the handle is None.
C2_SuccessVerified ==
    LET r == pr[1] IN
    (Done(r) /\ r.op = "create_table_with_retry")
    => /\ r.cok => (r.sawVerify /\ r.ch /= NoHandle)
       /\ ~r.cok => r.ch = NoHandle

C2_Witness ==
    LET r == pr[1] IN
    /\ Done(r) /\ r.op = "create_table_with_retry"
    /\ r.cok /\ r.cmsg \in CreatedMsgs /\ r.nCreate = 1 /\ r.sawVerify

\* C3: create_table_with_retry never raises, whatever the engine does and
\* whatever max_retries is, and it returns failure only when all max_retries
\* attempts have been used.
C3_NeverRaises ==
    LET r == pr[1] IN
    (Done(r) /\ r.op = "create_table_with_retry")
    => /\ r.res /= "raised"
       /\ ~r.cok => AttemptsUsed(r) = r.maxr

C3_Witness ==
    LET r == pr[1] IN
    /\ Done(r) /\ r.op = "create_table_with_retry"
    /\ ~r.cok /\ r.cmsg = "err_after" /\ r.maxr = CreateRetriesDefault
    /\ r.att = CreateRetriesDefault - 1

\* C4: when two callers concurrently create the same missing table (with
\* create_table or through auto-creation), the engine's create has succeeded once,
\* the table is there, and both callers return success.
C4_RaceCreate ==
    (/\ Done(pr[1]) /\ Done(pr[2]) /\ Creator(pr[1]) /\ Creator(pr[2])
     /\ pr[1].safe = pr[2].safe /\ pr[1].absent0 /\ pr[2].absent0)
    => /\ Present(pr[1].safe)
       /\ nextId = 3
       /\ pr[1].res \in SuccessResults
       /\ pr[2].res \in SuccessResults

\* C5: with one caller, between operations the cache holds no handle of a
\* dropped table under any name, raw or sanitized, and a search of query_table or
\* hybrid_search runs on a handle of the table's current incarnation.
C5_NoDroppedHandle ==
    LET r == pr[1] IN
    /\ AtRest(r) => \A n \in AllNames : cache[n] /= NoHandle => Live(n, cache[n])
    /\ r.pc \in {"q_count", "q_schema", "q_search", "q_search2", "q_exec",
                 "h_search", "h_exec"} => Live(r.safe, r.h)

C5_Witness ==
    LET r == pr[1] IN
    /\ Done(r) /\ r.op \in {"query_table", "hybrid_search"} /\ r.res = "results"
    /\ r.safe \in r.evicted
    /\ cache[r.safe] /= NoHandle /\ cache[r.safe].id > 1

\* C6: once a query_table or hybrid_search call and a delete_table call on the
\* same table have both returned, in any interleaving, and delete_table
\* reported success, the cache has no entry for the deleted table.
C6_DeleteEvicts ==
    \A p \in Callers, q \in Callers :
      (/\ Done(pr[p]) /\ Done(pr[q])
       /\ pr[p].op \in {"query_table", "hybrid_search"}
       /\ pr[q].op = "delete_table" /\ pr[q].res \in {"deleted", "deleted_alt"}
       /\ pr[q].target = pr[p].safe)
      => cache[pr[q].target] = NoHandle /\ cache[pr[q].safe] = NoHandle

\* C7: get_table_cached opens the table only on a miss or with force_refresh,
\* and then stores the opened handle under the name; on a hit it returns the
\* stored handle with no engine call; when the open fails the exception reaches
\* the caller and the cache is as it was.
C7_CacheContract ==
    LET r == pr[1]
        hit == ~r.force /\ r.cache0[r.name] /= NoHandle
    IN
    (Done(r) /\ r.op = "get_table_cached")
    => /\ r.res \in {"handle", "raised"}
       /\ hit => /\ r.res = "handle" /\ r.calls = 0
                 /\ r.h = r.cache0[r.name] /\ cache = r.cache0
       /\ (~hit /\ r.res = "handle")
             => /\ r.calls = 1 /\ r.h /= NoHandle
                /\ cache = [r.cache0 EXCEPT ![r.name] = r.h]
       /\ r.res = "raised" => cache = r.cache0 /\ r.calls <= 1

C7_Witness ==
    LET r == pr[1] IN
    /\ Done(r) /\ r.op = "get_table_cached" /\ r.res = "handle"
    /\ ~r.force /\ r.cache0[r.name] /= NoHandle /\ r.calls = 0

\* C8: the engine's connect is called at most once in the process.
C8_ConnectOnce == connects <= 1

\* C9: when callers of get_connection that found no connection have all
\* returned, the engine's connect has been invoked once and they hold the same
\* handle.
C9_RaceConnect ==
    (/\ Done(pr[1]) /\ Done(pr[2])
     /\ pr[1].op = "get_connection" /\ pr[2].op = "get_connection")
    => connects = 1 /\ pr[1].db = pr[2].db

\* C10: ingest_docs into an existing table whose vector width is not the
\* model's returns the dimension error (or, when the engine fails first, the
\* ingest error) without computing an embedding and without adding a row.
C10_IngestDimsGuard ==
    LET r == pr[1] IN
    (/\ Done(r) /\ r.op = "ingest_docs"
     /\ ~r.absent0 /\ Present(r.safe) /\ tables[r.safe].w /= ModelDims)
    => /\ r.emb = 0 /\ r.added = 0
       /\ r.res \in {"err_dims", "err_ingest"}
       /\ r.res = "err_ingest" => faults > 0

C10_Witness ==
    LET r == pr[1] IN
    /\ Done(r) /\ r.op = "ingest_docs" /\ r.res = "err_dims"
    /\ Present(r.safe) /\ tables[r.safe].w = OtherDims
    /\ r.emb = 0 /\ r.added = 0

\* C11: ingest_docs calls table.add only on a table whose vector width is the
\* embedding model's: a table that exists in the engine has gone through the
\* dimension check before rows are added, whatever the other caller does
C11_IngestChecked ==
    \A p \in Callers :
        LET r == pr[p] IN
        (r.op = "ingest_docs" /\ r.pc = "i_add" /\ Live(r.target, r.h))
        => tables[r.target].w = ModelDims

\* C12: after any sequence of ingest_docs, update_documents and
\* delete_documents, every stored row's vector is the embedding of the row's
\* current document (no table holds a row whose two fields were written apart)
C12_VectorFollowsDoc == \A n \in TableNames : tables[n].torn = 0

\* C13: delete_documents with a filter whose lower-cased, trimmed text is
\* "true", "1=1" or "1 = 1" returns the "delete ALL documents" warning without
\* a connection or any other engine call, whether or not the table exists,
\* and removes no row
C13_DangerousRefused ==
    LET r == pr[1] IN
    (/\ Done(r) /\ r.op = "delete_documents"
     /\ StrLower(StrStrip(r.filter)) \in Tautologies)
    => /\ r.res = "warn_delete_all"
       /\ r.db = 0 /\ r.calls = 0 /\ r.removed = 0

C13_Witness ==
    LET r == pr[1] IN
    /\ Done(r) /\ r.op = "delete_documents"
    /\ r.filter = <<" ", "T", "r", "u", "E", "\t">>
    /\ r.res = "warn_delete_all"
    /\ Present(r.safe) /\ tables[r.safe].rows = 2

PublicOps ==
    {"create_table", "delete_table", "list_tables", "table_count", "table_details",
     "table_stats", "ingest_docs", "update_documents", "delete_documents",
     "query_table", "hybrid_search"}

\* C14: no public operation raises to its caller: whatever the arguments and
\* whichever engine calls fail, the operation ends by returning a value
C14_NoRaise ==
    LET r == pr[1] IN
    (Done(r) /\ r.op \in PublicOps) => r.res /= "raised"

C14_Witness ==
    LET r == pr[1] IN
    /\ Done(r) /\ r.op = "update_documents" /\ faults > 0
    /\ r.res = "err_update" /\ r.calls = 4 /\ Present(r.target)

\* Results whose text begins with "Error: "
ErrorPrefixed ==
    {"err_create_exc", "err_delete", "err_still_exists", "err_ingest", "err_update",
     "err_delete_docs", "err_query", "err_search", "err_hybrid", "err_search_failed",
     "err_autocreate", "err_info", "err_missing", "err_dims", "err_metric",
     "err_topk", "err_filter_empty", "err_updates_empty"}

\* Results returned because an engine call raised or the retries ran out
FailureResults ==
    {"err_create_exc", "err_create", "err_after", "failed_after", "err_delete",
     "err_still_exists", "err_ingest", "err_update", "err_delete_docs", "err_query",
     "err_search", "err_hybrid", "err_search_failed", "err_autocreate", "false_exc"}

\* C15: when create_table, delete_table, ingest_docs, update_documents,
\* delete_documents, query_table or hybrid_search fails on a raising engine
\* call or an exhausted retry budget, it returns a string beginning with
\* "Error: "
C15_FailurePrefixed ==
    LET r == pr[1] IN
    (/\ Done(r)
     /\ r.op \in PublicOps \ {"list_tables", "table_count", "table_details", "table_stats"}
     /\ r.res \in FailureResults)
    => r.res \in ErrorPrefixed

C17_ShortCircuitEmpty ==
    \A p \in Callers :
        LET r == pr[p] IN
        (Done(r) /\ r.op \in {"query_table", "hybrid_search"} /\ r.autoRows /= -1)
        => r.autoRows = 0

\* C18: a failed similarity search of query_table is retried once on a
\* force-refreshed handle: at most two searches per call; a second search
\* only after a refresh, whose handle then is the cache entry; the results
\* of the retry are the results of the call; a failed refresh or retry ends
\* the call with the "Unable to search" error
C18_RetryOnce ==
    LET r == pr[1] IN
    (Done(r) /\ r.op = "query_table")
    => /\ r.searches <= 2
       /\ r.searches = 2 => r.force
       /\ (r.force /\ r.searches = 1) => r.res = "err_search"
       /\ r.res = "err_search" => r.force
       /\ (r.force /\ r.searches = 2)
          => /\ r.res \in {"err_search", "results", "true", "false", "false_exc",
                           "err_query"}
             /\ r.res \in {"false_exc", "err_query"} => faults >= 2
             /\ r.res /= "err_search" => (cache[r.safe] = r.h /\ r.h /= NoHandle)
             /\ r.res \in {"results", "true", "false"} => r.hits = Hits(tables[r.safe].rows, IF r.topk = 0 THEN 1 ELSE r.topk)

C18_Witness ==
    LET r == pr[1] IN
    /\ Done(r) /\ r.op = "query_table" /\ r.topk = 1
    /\ r.force /\ r.searches = 2 /\ r.res = "results" /\ r.hits = 1
    /\ cache[r.safe] = r.h

\* C19: neither query_table nor hybrid_search calls table.search on a
\* non-empty table whose vector width differs from the embedding model's
C19_NoMismatchedSearch ==
    LET r == pr[1] IN
    r.op \in {"query_table", "hybrid_search"} => ~r.badSearch

\* C20: hybrid_search with a metric outside the supported set returns the
\* "Invalid distance metric" error whether or not the table exists and
\* whatever auto_create_table is, creates no table and issues no search
C20_InvalidMetricRejected ==
    LET r == pr[1] IN
    (Done(r) /\ r.op = "hybrid_search" /\ r.topk >= 0 /\ ~r.metricOk /\ faults = 0)
    => /\ r.res = "err_metric"
       /\ r.nCreate = 0 /\ r.searches = 0

\* a <= b for two numbers m / 10^e
AtMost(a, b) == a.m * Pow10(b.e) <= b.m * Pow10(a.e)

Qualifies(hit, t) == hit.d = NoFloat \/ AtMost(hit.d, t)

\* hybrid_search calls that returned a result list under an active threshold
Thresholded(r) ==
    /\ Done(r) /\ r.op = "hybrid_search" /\ r.res = "results"
    /\ r.topk > 0 /\ r.thr /= NoFloat

\* C21: with top_k > 0 and an active threshold t, hybrid_search fetches up to
\* 2 * top_k hits and returns, in the engine's order, the first at most top_k
\* of them whose distance is <= t or that carry no distance: no returned hit
\* is farther than t, no qualifying hit is skipped before top_k are collected,
\* and count is the length of the returned list.
C21_PostFilter ==
    \A p \in Callers :
       LET r == pr[p] IN
       Thresholded(r) =>
          /\ r.limit = 2 * r.topk /\ Len(r.raw) <= 2 * r.topk
          /\ Len(r.out) <= r.topk
          /\ \A i \in DOMAIN r.out :
                /\ r.out[i] \in Range(r.raw)
                /\ Qualifies(r.out[i], r.thr)
                /\ \A j \in DOMAIN r.out : i < j => r.out[i].id < r.out[j].id
          /\ \A h \in Range(r.raw) :
                Qualifies(h, r.thr) =>
                   \/ h \in Range(r.out)
                   \/ Len(r.out) = r.topk /\ h.id > r.out[r.topk].id
          /\ r.hits = Len(r.out)

\* A call with top_k = 2 that fetched four hits, dropped the first for its
\* distance, kept the second and kept the third, which carries no distance
C21_Witness ==
    LET r == pr[1] IN
    /\ Thresholded(r) /\ r.topk = 2 /\ Len(r.raw) = 4
    /\ ~Qualifies(r.raw[1], r.thr)
    /\ Len(r.out) = 2 /\ r.out[1].id = 2 /\ r.out[2].id = 3 /\ r.out[2].d = NoFloat

\* The positions of the distance clauses among the clauses a filter was written from
DistanceAt(parts) == {i \in DOMAIN parts : parts[i].kind = "distance"}

FirstDistance(parts) ==
    parts[CHOOSE i \in DistanceAt(parts) : \A j \in DistanceAt(parts) : i <= j]

SameNumber(a, b) == AtMost(a, b) /\ AtMost(b, a)

\* hybrid_search calls past the rewriting of the filter
Rewritten(r) == r.op = "hybrid_search" /\ r.pc = "h_exec"

\* C22: the active threshold is the value of the first distance clause of the
\* filter when that clause uses <=, <, == or =, whatever the argument; when
\* the clause uses >= or >, or there is no distance clause, it is the
\* distance_threshold argument (none when none was given).
C22_ActiveThreshold ==
    \A p \in Callers :
       LET r == pr[p] IN
       Rewritten(r) =>
          IF DistanceAt(r.parts) /= {}
             /\ FirstDistance(r.parts).op \in {<<"<", "=">>, <<"<">>, <<"=", "=">>, <<"=">>}
          THEN r.thr /= NoFloat /\ SameNumber(r.thr, FirstDistance(r.parts).val)
          ELSE r.thr = r.thrArg

IsScalar(c) == c.kind = "scalar"

ScalarTexts(parts) ==
    LET s == SelectSeq(parts, IsScalar) IN [i \in DOMAIN s |-> s[i].text]

\* C23: for a conjunction of scalar clauses and one distance clause at any
\* position, the expression handed to the engine's filter is the conjunction
\* of the scalar clauses, unchanged, with no leading, trailing or doubled
\* connective; a filter that is only a distance clause applies no engine filter.
C23_RemainingFilter ==
    \A p \in Callers :
       LET r == pr[p] IN
       Rewritten(r) /\ Cardinality(DistanceAt(r.parts)) = 1
          => r.where = Conjunction(ScalarTexts(r.parts))

Deleted(r) == Done(r) /\ r.op = "delete_table"

\* C24: delete_table reports success only after a listing, taken after the
\* drop, that no longer holds the table; a table still listed after the three
\* re-checks and after the fallback drop yields an error string; and when
\* neither the raw nor the sanitized name is listed it returns an error
\* without calling the engine's drop.
C24_DeleteVerified ==
    \A p \in Callers :
       LET r == pr[p] IN
       Deleted(r) =>
          /\ r.res \in {"deleted", "deleted_alt"}
                => r.drops >= 1 /\ r.checks >= 1 /\ ~r.seen
          /\ r.checks = DeleteChecks + 1 /\ r.seen
                => r.drops = 2 /\ r.res = "err_still_exists"
          /\ r.target = <<>> => r.drops = 0 /\ r.res \in {"err_missing", "err_delete"}
          /\ r.res = "err_missing" => r.target = <<>> /\ r.calls = 1

\* The drop returned with the table still there, three listings showed it,
\* and the fallback's drop removed it
C24_Witness ==
    LET r == pr[1] IN
    /\ Deleted(r) /\ r.res = "deleted_alt" /\ r.checks = DeleteChecks + 1
    /\ r.drops = 2 /\ ~Present(r.target)

Listings == {"tables_none", "tables_dict", "tables_partial"}

\* C25: list_tables returns one entry per table name known to the engine (a
\* table that cannot be opened included), its count is the number of entries,
\* and table_count returns the number of tables of the state it ran in.
C25_ListingComplete ==
    \A p \in Callers :
       LET r == pr[p] IN
       /\ Done(r) /\ r.op = "list_tables" /\ r.res \in Listings
             => r.entries = r.known /\ r.count = Cardinality(r.entries)
       /\ Done(r) /\ r.op = "table_count" /\ r.res = "count_dict"
             => r.count = Cardinality(r.known)

\* C26: when the enumeration of the table names failed, list_tables and
\* table_count return a dict with an "error" key, not a listing or a count.
C26_EnumerationErrorReported ==
    \A p \in Callers :
       LET r == pr[p] IN
       Done(r) /\ r.op \in {"list_tables", "table_count"} /\ r.enumFailed
          => r.res \notin Listings \cup {"count_dict"}

\* An entry that is not None and has a character that is not white space
Survives(e) == e.t /= "none" /\ \E i \in DOMAIN DocToStr(e) : ~IsSpaceCh(DocToStr(e)[i])

Survivors(d) ==
    LET kept == SelectSeq(d.items, Survives)
    IN [i \in DOMAIN kept |-> StrStrip(DocToStr(kept[i]))]

Refused(r) == Done(r) /\ r.res \in {"err_no_docs", "err_no_valid"}

\* C28: ingest_docs keeps the entries that are not None and not blank once
\* converted to a string, trimmed and in input order; when none survives it
\* returns an error without touching the engine; on success it made one add
\* call with one row per surviving document, and the message's count is that
\* number of rows.
C28_IngestNormalised ==
    \A p \in Callers :
       LET r == pr[p] IN
       r.op = "ingest_docs" =>
          /\ Refused(r) <=> Done(r) /\ Survivors(r.docsIn) = <<>>
          /\ Refused(r) => r.db = 0 /\ r.calls = 0 /\ r.emb = 0 /\ connects = 0
          /\ ~Refused(r) => r.docs = Survivors(r.docsIn)
          /\ Done(r) /\ r.res = "ok_added"
                => /\ r.added = 1 /\ r.rowsAdded = Len(Survivors(r.docsIn))
                   /\ r.count = r.rowsAdded

\* A list that starts with None and holds a padded string and a number: the
\* trimmed string and the number's digits were added, in that order
C28_Witness ==
    LET r == pr[1] IN
    /\ Done(r) /\ r.res = "ok_added" /\ r.rowsAdded = 2
    /\ r.docsIn.items[1] = NoneDoc
    /\ r.docs = << <<"e", " ", "f">>, <<"7", "0">> >>
    /\ tables[r.target].rows = 4

\* The workflow has run to its end
WorkflowDone(r) == Done(r) /\ r.n = WorkflowOps /\ Len(r.hist) = WorkflowOps - 1

\* What the claim says of a finished workflow: hist[1] is the first listing,
\* hist[3] the ingestion, hist[4] table_details, hist[5] the query
WorkflowHolds(r) ==
    /\ r.hist[4].res = "info_dict" /\ r.hist[4].count = r.hist[3].k
    /\ r.hist[5].res = "results" /\ r.hist[5].hits = 1
    /\ r.res \in Listings /\ r.count = r.hist[1].count

Blank(f) == \A i \in DOMAIN f : IsSpaceCh(f[i])

\* C29: update_documents issues the engine's update only for a non-blank
\* filter, a non-empty update map, a table listed under its raw or sanitized
\* name and a row-count probe that did not report 0 rows; a blank filter or
\* an empty map is rejected before any engine access, a missing table is an
\* error, an empty table a warning without update, and a failed probe leaves
\* the update and its success report in place.
C29_UpdateGuards ==
    \A p \in Callers :
       LET r == pr[p] IN
       r.op = "update_documents" =>
          /\ r.updates >= 1
                => /\ ~Blank(r.filter) /\ r.upd /= ""
                   /\ r.target \in {r.name, r.safe} /\ r.probe \in {"rows", "failed"}
          /\ Blank(r.filter) \/ r.upd = ""
                => /\ Done(r) /\ r.res \in {"err_filter_empty", "err_updates_empty"}
                   /\ r.db = 0 /\ r.calls = 0
          /\ Done(r) /\ r.res = "err_missing" => r.target = <<>> /\ r.updates = 0
          /\ Done(r) /\ r.probe = "zero" => r.res = "warn_empty" /\ r.updates = 0
          /\ Done(r) /\ r.probe = "failed"
                => /\ r.updates = 1
                   /\ r.res = "ok_updated" \/ (faults > 1 /\ r.res = "err_update")

\* The row count failed, the update ran and success was reported
C29_Witness ==
    LET r == pr[1] IN
    /\ Done(r) /\ r.op = "update_documents" /\ r.probe = "failed"
    /\ r.updates = 1 /\ r.res = "ok_updated"

Sanitized(r) == Done(r) /\ r.op = "sanitize_table_name"

\* C30: for every input string x, blank, digit-leading, all-separator and
\* mixed-case names included,
\* sanitize_table_name(sanitize_table_name(x)) = sanitize_table_name(x).
C30_SanitizeIdempotent ==
    \A p \in Callers : Sanitized(pr[p]) => pr[p].target = pr[p].safe

\* A digit-leading name of two words: "1-B" gives "1b", and "1b" gives "1b"
C30_Witness ==
    LET r == pr[1] IN
    /\ Sanitized(r) /\ r.name = <<"1", "-", "B">>
    /\ r.safe = <<"1", "b">> /\ r.target = <<"1", "b">>

\* A run of letters and digits with its first letter upper-cased and its other
\* characters as they were
UpperFirst(w) == [i \in DOMAIN w |-> IF i = 1 THEN UpperCh(w[i]) ELSE w[i]]

RECURSIVE JoinUpperFirst(_)
JoinUpperFirst(words) ==
    IF words = <<>> THEN <<>>
    ELSE UpperFirst(Head(words)) \o JoinUpperFirst(Tail(words))

\* C31: for a non-blank name that is not already canonical,
\* sanitize_table_name returns the maximal runs of ASCII letters and digits of
\* the name, joined without separators, each run with its first letter
\* upper-cased and its other characters kept as they were; a canonical name is
\* returned unchanged.
C31_SanitizeRuns ==
    \A p \in Callers :
       LET r == pr[p] IN
       Sanitized(r) =>
          /\ IsCanonical(r.name) => r.safe = r.name
          /\ StrStrip(r.name) /= <<>> /\ ~IsCanonical(r.name)
                => r.safe = JoinUpperFirst(SplitWords(r.name, <<>>, <<>>))

Verified(r) == Done(r) /\ r.op = "verify_table_exists"

CaseVariants(n) == {n, StrLower(n), StrUpper(n), StrCapitalize(n)}

\* What a direct call of verify_table_exists returned, and after how many passes
VerifyAnswers ==
    \A p \in Callers :
       LET r == pr[p] IN
       Verified(r) =>
          /\ r.res \in {"true", "false"}
          /\ r.res = "true"
                => /\ r.vfound \in CaseVariants(r.name)
                   /\ r.vfound = r.name \/ r.vfound \in r.known
                   /\ r.vtries \in 1..r.maxr
          /\ r.res = "false" => r.vfound = <<>> /\ r.vtries = r.maxr

\* A step of a caller that is inside verify_table_exists
VerifyStepFrame ==
    \A p \in Callers :
       pr'[p] /= pr[p] /\ pr'[p].op = "verify_table_exists"
          => UNCHANGED <<tables, nextId, cache>>

\* C32: verify_table_exists(name, max_retries) never changes the engine's
\* tables or the table cache; it returns true as soon as an open with a schema
\* read succeeds for the name or for a listed case variant of it (the name, its
\* lower-case, upper-case and capitalized forms), and it returns false after
\* exactly max_retries failed attempts.
C32_VerifyProbe == []VerifyAnswers /\ [][VerifyStepFrame]_vars

\* True in the second pass, through the listed variant "AB" of "ab"
C32_Witness ==
    LET r == pr[1] IN
    /\ Verified(r) /\ r.res = "true" /\ r.name = <<"a", "b">>
    /\ r.vfound = <<"A", "B">> /\ r.vtries = 2 /\ r.maxr = 3

\* The existence check at the start of the operation answered true, and the
\* operation created nothing
PassedCheck(r) == Done(r) /\ r.sawVerify /\ r.nCreate = 0

\* C33: in every engine state in which verify_table_exists(sanitized name) is
\* true, also when only through a listed case variant of the name,
\* create_table_with_retry returns success with the "already exists" message
\* and a usable handle without calling the engine's create, and query_table,
\* having passed the same check, opens the table it then searches.
C33_VerifiedIsUsable ==
    \A p \in Callers :
       LET r == pr[p] IN
       /\ PassedCheck(r) /\ r.op \in {"create_table", "create_table_with_retry"}
             => r.cok /\ r.cmsg = "exists" /\ Live(r.safe, r.ch)
       /\ PassedCheck(r) /\ r.op = "query_table"
             => Live(r.safe, r.h) /\ r.res \in {"results", "true", "empty", "false"}

\* A query_table call that followed a successful ingest_docs of the same name
QueryAfterIngest(r) ==
    /\ Done(r) /\ r.op = "query_table"
    /\ r.last.op = "ingest_docs" /\ r.last.name = r.name /\ r.last.res = "ok_added"

\* C34: a query_table call that starts after ingest_docs returned success for
\* the same table observes the ingested rows and never reports the table as
\* empty, also when an earlier query put the table handle into the cache
\* before the ingestion, which went through a connection of its own.
C34_QuerySeesIngest ==
    \A p \in Callers :
       LET r == pr[p]
           rows == tables[r.safe].rows
           k == IF r.topk = 0 THEN 1 ELSE r.topk
       IN  QueryAfterIngest(r)
              => /\ r.res = (IF r.topk = 0 THEN "true" ELSE "results")
                 /\ r.hits = (IF rows < k THEN rows ELSE k)

\* The probe and the top_k = 1 call of the same arguments have both returned
ProbedThenSearched(r) ==
    /\ Done(r) /\ r.op = "hybrid_search" /\ r.topk = 1 /\ r.res = "results"
    /\ Len(r.hist) = 1 /\ r.hist[1].op = "hybrid_search"
    /\ r.hist[1].res \in {"true", "false"}

\* C35: for the same query, table, filter, metric and distance threshold,
\* hybrid_search with top_k = 0 returns True exactly when hybrid_search with
\* top_k = 1 returns a non-empty result list: the existence probe takes the
\* active distance threshold (explicit or extracted from the filter) into
\* account.
C35_ProbeAgreesWithSearch ==
    \A p \in Callers :
       LET r == pr[p] IN
       ProbedThenSearched(r) => (r.hist[1].res = "true" <=> Len(r.out) > 0)

DeleteErrors == {"err_missing", "err_delete", "err_still_exists"}

\* C36: whenever delete_table returns an error string, the table is still
\* present with every row it had before the call: a deletion that is reported
\* as failed leaves the engine's tables as they were.
C36_FailedDeleteKeepsRows ==
    \A p \in Callers :
       LET r == pr[p] IN
       Done(r) /\ r.op = "delete_table" /\ r.res \in DeleteErrors => tables = r.before

\* Operations that look the raw name up first and the sanitized name second
RawFirstOps == {"ingest_docs", "update_documents", "delete_documents", "delete_table"}

FixedPoint(n) == SanitizeWithSeed(n, HashSeed) = n

\* C37: starting from an empty engine, after any sequence of public operations
\* every table name in the engine is a fixed point of sanitize_table_name, so
\* the table the raw-then-sanitized lookup of ingest_docs, update_documents,
\* delete_documents and delete_table resolves is the table of the sanitized
\* name, which is the one query_table, hybrid_search, table_details and
\* table_stats look up.
C37_NamesAreFixedPoints ==
    /\ \A n \in DOMAIN tables : tables[n].id /= 0 => FixedPoint(n)
    /\ \A p \in Callers :
          LET r == pr[p] IN
          r.op \in RawFirstOps /\ r.target /= <<>>
             => r.target = SanitizeWithSeed(r.name, HashSeed)

\* ingest_docs("a-b") without auto-creation filled the table "AB" that an
\* earlier operation of the run created
C37_Witness ==
    LET r == pr[1] IN
    /\ Done(r) /\ r.op = "ingest_docs" /\ ~r.auto /\ r.res = "ok_added"
    /\ r.name = <<"a", "-", "b">> /\ r.target = <<"A", "B">>
    /\ Listed = {<<"A", "B">>}

\* C38: for every input, the name sanitize_table_name returns is in canonical
\* form, an upper-case ASCII letter followed only by ASCII letters and digits,
\* also for names whose first letter-or-digit is a digit.
C38_SanitizedIsCanonical ==
    \A p \in Callers :
       LET r == pr[p] IN
       Sanitized(r)
          => /\ r.safe /= <<>>
             /\ IsUpperCh(r.safe[1])
             /\ \A i \in DOMAIN r.safe : IsAlnumCh(r.safe[i])

\* The default the claim gives each kind of type
ExpectedDefault(kind) ==
    CASE kind = "string" -> "''"
      [] kind = "int" -> "0"
      [] kind = "float" -> "0.0"
      [] kind = "bool" -> "False"
      [] kind = "list" -> "[]"
      [] kind = "other" -> "None"

RowBuilt(r) == Done(r) /\ r.op = "ingest_docs" /\ r.schema /= <<>>

\* C39: every row ingest_docs builds for an existing table has a value for
\* every non-vector field of the table's schema, chosen by the field's type:
\* empty string for string fields, 0 for integer fields, 0.0 for float and
\* double fields, false for boolean fields, an empty list for every list
\* field that is not a fixed-size list, whatever its element type, and null
\* for any other type.
C39_RowDefaults ==
    \A p \in Callers :
       LET r == pr[p] IN
       RowBuilt(r) =>
          \A i \in DOMAIN r.schema :
             r.schema[i].kind \notin {"doc", "vector"}
                => r.row[i] = ExpectedDefault(r.schema[i].kind)

\* C40: open_table_with_retry returns only a handle whose schema read
\* succeeded, taken from the first successful attempt with no open call after
\* it; in every other case, for every value of max_retries, it has made
\* max_retries failed attempts, raises the error of the last one, and never
\* returns without a handle.
OpenRetryDone(r) == r.op = "open_table_with_retry" /\ r.pc = "done"
ReturnedHandle(r) ==
    /\ r.res = "table"
    /\ r.h /= NoHandle
    /\ r.opens = r.opened
    /\ r.att = Len(r.errs)
    /\ \A i \in DOMAIN r.errs : r.errs[i].att = i - 1
RaisedLast(r) ==
    /\ r.res = "raised"
    /\ Len(r.errs) = r.maxr
    /\ r.exc = r.errs[Len(r.errs)]
    /\ r.exc.att = r.maxr - 1
C40_OpenRetryEnds ==
    \A p \in DOMAIN pr :
        OpenRetryDone(pr[p]) => ReturnedHandle(pr[p]) \/ RaisedLast(pr[p])

====
